---- MODULE Spec2Model ----
(***************************************************************************)
(* The Colonel agent gateway of Ops-Center: the WebSocket connection       *)
(* handler and receive loop (colonel/websocket_gateway.py), the round loop *)
(* of one user turn, and the skill router with its confirmation handshake  *)
(* (colonel/skill_router.py).                                              *)
(*                                                                         *)
(* Three specifications share the state and most actions:                  *)
(*   Spec      the gateway as written: handle_websocket and _message_loop. *)
(*             The call at websocket_gateway.py:259 reads write_enabled,   *)
(*             a name that is bound in handle_websocket (line 193) but in  *)
(*             no scope _message_loop can see, so the call raises          *)
(*             NameError and the handler of line 210 ends the connection.  *)
(*   SpecTurn  the round loop _stream_response (line 263) entered with its *)
(*             write_enabled parameter bound, together with the router's   *)
(*             execute / handle_confirmation and the receive loop.         *)
(*   SpecLoop  _message_loop as written, on accepted connections whose     *)
(*             clients have payloads queued for receive_text.              *)
(***************************************************************************)
EXTENDS Integers, Sequences, FiniteSets, TLC

\* ------------------------------------------------------------------ bounds
MaxSessions == 2
MaxInbox == 1
MaxMessages == 1
MaxFrames == 1
MaxRichRounds == 1

\* ------------------------------------------------------- program constants
max_tool_rounds == 5
CloseUnauthenticated == 4001
CloseForbidden == 4003

\* ------------------------------------------------------------- input sets
Conns == {1, 2}
SessionIds == 1..MaxSessions
ConfirmIds == {"k1", "k2"}
NoSid == 0
NoUser == [id |-> "", admin |-> FALSE, known |-> FALSE]
NoSession == [id |-> NoSid, user_id |-> "", messages |-> <<>>]

VARIABLES
  pc,          \* per connection: where its handler task stands
  config,      \* the ColonelConfig get_colonel_config returns: admin_only,
               \* and whether its model is write capable
  cred,        \* per connection: what the WebSocket came with, and the
               \* session counter its handler found
  user,        \* per connection: the authenticated user (handle_websocket local)
  session,     \* per connection: the ColonelSession object the handler holds
  wenabled,    \* per connection: write_enabled of handle_websocket (line 193)
  frames,      \* per connection: frames sent to the client, in order
  closeCode,   \* per connection: close code of ws.close, 0 when none
  ended,       \* per connection: why the handler ended
  inbox,       \* per connection: inbound payloads not yet received
  store,       \* the session store (Redis), by session id
  nextSid,     \* next unused session id (uuid4 of ColonelSession.id)
  connections, \* ColonelGateway._connections: session id -> connection
  hasRouter,   \* ColonelGateway.skill_router is not None
  pending,     \* SkillRouter._pending_confirmations: id -> event state
  results,     \* SkillRouter._confirmation_results: id -> value
  turn,        \* per connection: locals of _stream_response and execute
  turnStart,   \* per connection: Len(frames) when the current turn began
  turns        \* per connection: number of chat turns begun

vars == <<pc, config, cred, user, session, wenabled, frames, closeCode, ended, inbox, store,
          nextSid, connections, hasRouter, pending, results, turn, turnStart,
          turns>>

\* ------------------------------------------------------------- frames
\* A frame on the wire: its type and the two fields the properties read,
\* each as the text of its JSON value (a sequence of tokens).
Frame(t, a, b) == [type |-> t, a |-> a, b |-> b]
ErrorFrame(code, detail) == Frame("error", <<code>>, <<detail>>)
BoolText(v) == IF v THEN "true" ELSE "false"

\* ws.send_json(frame) on connection c
Send(fr, c, f) == [fr EXCEPT ![c] = Append(@, f)]

RECURSIVE CountType(_, _)
CountType(s, t) ==
  IF s = <<>> THEN 0
  ELSE (IF Head(s).type = t THEN 1 ELSE 0) + CountType(Tail(s), t)

\* the frames of connection c sent since its current turn began
TurnFrames(c) == SubSeq(frames[c], turnStart[c] + 1, Len(frames[c]))

\* ------------------------------------------------------- inbound payloads
Payload(k, i, v, t) == [kind |-> k, cid |-> i, val |-> v, content |-> t]
\* the text a user's client sends in a chat message carries the user's mark
ChatOf(uid) == <<"hi", uid>>
Payloads ==
  {Payload("invalid_json", "", FALSE, <<>>),
   Payload("non_object", "", FALSE, <<>>),
   Payload("ping", "", FALSE, <<>>),
   Payload("other", "", FALSE, <<>>),
   Payload("chat", "", FALSE, <<>>)}
  \cup {Payload("chat", "", FALSE, ChatOf(uid)) : uid \in {"u1", "u2"}}
  \cup {Payload("confirm", i, v, <<>>) : i \in ConfirmIds, v \in BOOLEAN}

\* --------------------------------------------------------- transcript
Message(r, t, tcid, tcs, n) ==
  [role |-> r, content |-> t, tool_call_id |-> tcid, tool_calls |-> tcs, name |-> n]
NoId == <<>>
UserMessage(t) == Message("user", t, NoId, <<>>, "")

\* ------------------------------------------------------------ sessions
\* ColonelSession(user_id=...) with a fresh uuid4 id and no messages
NewSession(sid, uid) == [id |-> sid, user_id |-> uid, messages |-> <<>>]

\* _get_session: the stored session, or None
GetSession(sid) == IF sid \in SessionIds THEN store[sid] ELSE NoSession

\* _save_session: the store entry of the session's id is overwritten
SaveSession(st, s) == [st EXCEPT ![s.id] = s]

\* ------------------------------------------------------- authentication
\* _authenticate: user data of the session token, None when the cookie and
\* query parameter are missing, the token is unknown, or the lookup raises
Authenticate(token) ==
  CASE token = "tok_u1" -> [id |-> "u1", admin |-> TRUE, known |-> TRUE]
    [] token = "tok_u2" -> [id |-> "u2", admin |-> FALSE, known |-> TRUE]
    [] OTHER -> NoUser

\* locals of _stream_response / execute of a connection with no turn running
NoTurn ==
  [round |-> 0, content |-> <<>>, toolCalls |-> <<>>, parts |-> <<>>,
   doneSent |-> FALSE, queue |-> <<>>, remap |-> {}, llmCalls |-> 0,
   failed |-> FALSE, afterFail |-> 0, execs |-> <<>>, confirmId |-> "",
   call |-> <<>>,
   approved |-> FALSE, ownConfirm |-> FALSE, outcome |-> "none",
   gone |-> FALSE, sendFailed |-> FALSE, execsAfter |-> 0, llmAfter |-> 0,
   lenBefore |-> 0, early |-> FALSE, llm_messages |-> <<>>,
   arrived |-> <<>>, current_tool_calls |-> <<>>,
   memory |-> "absent", graph |-> "absent", system_prompt |-> <<>>]

Init ==
  /\ pc = [c \in Conns |-> "connecting"]
  /\ config \in [adminOnly : BOOLEAN, we : BOOLEAN]
  /\ cred = [c \in Conns |-> [token |-> "missing", sid |-> NoSid, before |-> 0]]
  /\ user = [c \in Conns |-> NoUser]
  /\ session = [c \in Conns |-> NoSession]
  /\ wenabled = [c \in Conns |-> FALSE]
  /\ frames = [c \in Conns |-> <<>>]
  /\ closeCode = [c \in Conns |-> 0]
  /\ ended = [c \in Conns |-> "no"]
  /\ inbox = [c \in Conns |-> <<>>]
  /\ store = [s \in SessionIds |-> NoSession]
  /\ nextSid = 1
  /\ connections = [s \in SessionIds |-> 0]
  /\ hasRouter \in BOOLEAN
  /\ pending = [i \in ConfirmIds |-> "none"]
  /\ results = [i \in ConfirmIds |-> "absent"]
  /\ turn = [c \in Conns |-> NoTurn]
  /\ turnStart = [c \in Conns |-> 0]
  /\ turns = [c \in Conns |-> 0]

\* ------------------------------------------------- handle_websocket
\* variant: the admin_only gate lets every authenticated user through
ForbiddenNever(adminOnly, u) == FALSE
\* is_admin and the admin_only gate of handle_websocket
Forbidden(adminOnly, u) == adminOnly /\ ~u.admin

\* variant: the supplied session is used whenever it exists
OwnsSessionAnyUser(found, uid) == found # NoSession
\* the supplied session is used only when it exists and the user owns it
OwnsSession(found, uid) == found # NoSession /\ found.user_id = uid

\* authentication or authorization failure: one error frame, then ws.close
Reject(c, code, close) ==
  /\ frames' = Send(frames, c, ErrorFrame(code, code))
  /\ closeCode' = [closeCode EXCEPT ![c] = close]
  /\ ended' = [ended EXCEPT ![c] = code]
  /\ pc' = [pc EXCEPT ![c] = "closed"]
  /\ UNCHANGED <<user, session, wenabled, store, nextSid, connections>>

\* get or create the session, register the connection, send connected
Accept(c, u, sid, we) ==
  LET found == GetSession(sid)
      reuse == sid # NoSid /\ OwnsSession(found, u.id)
      s == IF reuse THEN found ELSE NewSession(nextSid, u.id)
  IN /\ reuse \/ nextSid <= MaxSessions
     /\ store' = IF reuse THEN store ELSE SaveSession(store, s)
     /\ nextSid' = IF reuse THEN nextSid ELSE nextSid + 1
     /\ user' = [user EXCEPT ![c] = u]
     /\ session' = [session EXCEPT ![c] = s]
     /\ wenabled' = [wenabled EXCEPT ![c] = we]
     /\ connections' = [connections EXCEPT ![s.id] = c]
     /\ frames' = Send(frames, c, Frame("connected", <<ToString(s.id)>>, <<BoolText(we)>>))
     /\ pc' = [pc EXCEPT ![c] = "idle"]
     /\ UNCHANGED <<closeCode, ended>>

\* handle_websocket up to the receive loop, for a connection presenting
\* `token` and asking for session `sid`
Connect(c, token, sid) ==
  /\ pc[c] = "connecting"
  /\ cred' = [cred EXCEPT ![c] = [token |-> token, sid |-> sid,
                                  before |-> nextSid]]
  /\ LET u == Authenticate(token) IN
       IF ~u.known THEN Reject(c, "auth_required", CloseUnauthenticated)
       ELSE IF Forbidden(config.adminOnly, u)
            THEN Reject(c, "forbidden", CloseForbidden)
            ELSE Accept(c, u, sid, config.we)
  /\ UNCHANGED <<config, inbox, hasRouter, pending, results, turn, turnStart,
                 turns>>

\* the exception handlers of handle_websocket: `except Exception` sends an
\* error frame carrying str(e); `finally` pops the registry entry of the
\* session id
HandlerEnds(c, why, fr) ==
  /\ frames' = IF why = "error" THEN Send(fr, c, ErrorFrame("exception", why))
               ELSE fr
  /\ connections' = [connections EXCEPT ![session[c].id] = 0]
  /\ ended' = [ended EXCEPT ![c] = why]
  /\ pc' = [pc EXCEPT ![c] = "closed"]
  /\ inbox' = [inbox EXCEPT ![c] = <<>>]

\* receive_text raises WebSocketDisconnect: the client went away
Disconnect(c) ==
  /\ pc[c] = "idle"
  /\ HandlerEnds(c, "disconnect", frames)
  /\ UNCHANGED <<config, cred, user, session, wenabled, closeCode, store, nextSid, hasRouter,
                 pending, results, turn, turnStart, turns>>

\* ------------------------------------------------------ skill router

\* handle_confirmation: the value is stored under the id; the event of the
\* id, if one is registered, is set
ResolvedResults(res, id, v) == [res EXCEPT ![id] = BoolText(v)]
ResolvedPending(pen, id) ==
  IF pen[id] = "none" THEN pen ELSE [pen EXCEPT ![id] = "set"]

\* observation: an approval for the id an execute call is waiting on, or
\* (early) for the id of a confirm_required frame whose event is not yet
\* registered
ApprovalSeen(tn, id, v) ==
  [w \in Conns |->
     IF pc[w] = "wait" /\ tn[w].confirmId = id /\ v
     THEN [tn[w] EXCEPT !.approved = TRUE]
     ELSE IF pc[w] = "register" /\ tn[w].confirmId = id /\ v
     THEN [tn[w] EXCEPT !.early = TRUE]
     ELSE tn[w]]

\* -------------------------------------------------------- receive loop
\* receive_text returns m: the oldest payload waiting on the connection,
\* or, when none waits, a payload the client sends now
Received(c, m, kind) ==
  /\ pc[c] = "idle"
  /\ m.kind = kind
  /\ inbox[c] # <<>> => m = Head(inbox[c])
Consume(c) == inbox' = [inbox EXCEPT ![c] = IF @ = <<>> THEN @ ELSE Tail(@)]

\* the client puts a payload on the connection while its handler is busy
ClientSend(c, p) ==
  /\ pc[c] \notin {"connecting", "closed", "idle"}
  /\ Len(inbox[c]) < MaxInbox
  /\ inbox' = [inbox EXCEPT ![c] = Append(@, p)]
  /\ turn' = [turn EXCEPT ![c] =
       IF pc[c] = "wait" /\ p.kind = "confirm" /\ p.cid = @.confirmId /\ p.val
       THEN [@ EXCEPT !.ownConfirm = TRUE] ELSE @]
  /\ UNCHANGED <<pc, config, cred, user, session, wenabled, frames, closeCode, ended, store,
                 nextSid, connections, hasRouter, pending, results, turnStart,
                 turns>>

\* json.loads raises JSONDecodeError: error frame, continue
RecvInvalidJson(c, m) ==
  /\ Received(c, m, "invalid_json")
  /\ Len(frames[c]) <= MaxFrames
  /\ Consume(c)
  /\ frames' = Send(frames, c, ErrorFrame("invalid_json", "Invalid JSON"))
  /\ UNCHANGED <<pc, config, cred, user, session, wenabled, closeCode, ended, store, nextSid,
                 connections, hasRouter, pending, results, turn, turnStart, turns>>

\* JSON that is no object: msg.get raises AttributeError out of the loop
RecvNonObject(c, m) ==
  /\ Received(c, m, "non_object")
  /\ HandlerEnds(c, "error", frames)
  /\ UNCHANGED <<config, cred, user, session, wenabled, closeCode, store, nextSid, hasRouter,
                 pending, results, turn, turnStart, turns>>

\* ping: pong, continue
RecvPing(c, m) ==
  /\ Received(c, m, "ping")
  /\ Len(frames[c]) <= MaxFrames
  /\ Consume(c)
  /\ frames' = Send(frames, c, Frame("pong", <<>>, <<>>))
  /\ UNCHANGED <<pc, config, cred, user, session, wenabled, closeCode, ended, store, nextSid,
                 connections, hasRouter, pending, results, turn, turnStart, turns>>

\* confirm: handed to the router when there is one, continue
RecvConfirm(c, m) ==
  /\ Received(c, m, "confirm")
  /\ Consume(c)
  /\ IF hasRouter
     THEN /\ results' = ResolvedResults(results, m.cid, m.val)
          /\ pending' = ResolvedPending(pending, m.cid)
          /\ turn' = ApprovalSeen(turn, m.cid, m.val)
     ELSE UNCHANGED <<results, pending, turn>>
  /\ UNCHANGED <<pc, config, cred, user, session, wenabled, frames, closeCode, ended, store,
                 nextSid, connections, hasRouter, turnStart, turns>>

\* a type that is none of ping, confirm, message, chat: no branch of the
\* loop body matches, nothing is sent
RecvOther(c, m) ==
  /\ Received(c, m, "other")
  /\ Consume(c)
  /\ UNCHANGED <<pc, config, cred, user, session, wenabled, frames, closeCode, ended, store,
                 nextSid, connections, hasRouter, pending, results, turn,
                 turnStart, turns>>

\* message/chat whose stripped content is empty: continue
RecvChatEmpty(c, m) ==
  /\ Received(c, m, "chat")
  /\ m.content = <<>>
  /\ Consume(c)
  /\ UNCHANGED <<pc, config, cred, user, session, wenabled, frames, closeCode, ended, store,
                 nextSid, connections, hasRouter, pending, results, turn,
                 turnStart, turns>>

\* session.messages.append(user_msg)
WithUserMessage(s, t) == [s EXCEPT !.messages = Append(@, UserMessage(t))]

\* message/chat as written: the user message is appended and saved, then the
\* call of line 259 raises NameError (write_enabled), which ends the handler
RecvChat(c, m) ==
  /\ Received(c, m, "chat")
  /\ m.content = ChatOf(user[c].id)
  /\ Len(session[c].messages) < MaxMessages
  /\ LET s == WithUserMessage(session[c], m.content) IN
       /\ session' = [session EXCEPT ![c] = s]
       /\ store' = SaveSession(store, s)
  /\ turns' = [turns EXCEPT ![c] = @ + 1]
  /\ turnStart' = [turnStart EXCEPT ![c] = Len(frames[c])]
  /\ turn' = [turn EXCEPT ![c] = NoTurn]
  /\ HandlerEnds(c, "error", frames)
  /\ UNCHANGED <<config, cred, user, wenabled, closeCode, nextSid, hasRouter, pending, results>>

\* ------------------------------------------------ completion service
\* a tool call as accumulated from the stream: raw id, function name and
\* argument string (valid JSON, not JSON, or empty)
ToolCall(i, n, a) == [id |-> i, name |-> n, args |-> a]
PlainTool == "system-status__cpu"
ConfirmTool == "docker-management__manage_container"
GhostTool == "ghost__action"
ToolCalls ==
  {ToolCall(i, PlainTool, "json") :
     i \in {<<>>, <<"call_", "a">>, <<"toolu_", "a">>, <<"toolu_", "vrtx_", "a">>}}
  \cup {ToolCall(<<"toolu_", "a">>, n, a) : n \in {PlainTool, ConfirmTool, GhostTool, ""},
                                             a \in {"json", "garbage"}}
  \cup {ToolCall(<<>>, PlainTool, "")}
Canonical == ToolCall(<<"call_", "a">>, PlainTool, "json")
ToolCallLists ==
  {<<>>} \cup {<<t>> : t \in ToolCalls}
  \cup {<<Canonical, ToolCall(<<"toolu_", "a">>, ConfirmTool, "garbage")>>,
        <<ToolCall(<<"toolu_", "a">>, PlainTool, ""), Canonical>>}

\* what one streaming call does: how it ends, the content deltas it
\* streams and the tool calls accumulated from its fragments
Resp(k, t, tcs) == [status |-> k, deltas |-> t, tcs |-> tcs]
RichResponses ==
  {Resp("ok", t, <<>>) : t \in {<<>>, <<"c1">>, <<"c1", "c2">>}}
  \cup {Resp("ok", t, tcs) : t \in {<<>>, <<"c1">>},
                             tcs \in ToolCallLists \ {<<>>}}
  \cup {Resp(k, t, tcs) : k \in {"http_error", "stream_error", "read_timeout",
                                "exception"},
                          t \in {<<>>, <<"c1">>},
                          tcs \in {<<>>, <<Canonical>>}}
LaterResponses ==
  {Resp("ok", <<"c1">>, <<>>), Resp("ok", <<>>, <<Canonical>>),
   Resp("read_timeout", <<>>, <<Canonical>>)}
Responses(round) == IF round < MaxRichRounds THEN RichResponses ELSE LaterResponses

\* how an executor may behave in a round: it returns, or it raises
Outcomes(round) == IF round < MaxRichRounds THEN {"ok", "raise"} ELSE {"ok"}

\* _call_llm_stream: the frames it sends. A non-200 status is answered
\* before any line is read; otherwise one chunk per content delta, and an
\* error frame when the stream ends in an error
RECURSIVE ChunkFrames(_)
ChunkFrames(ds) ==
  IF ds = <<>> THEN <<>>
  ELSE <<Frame("chunk", <<Head(ds)>>, <<>>)>> \o ChunkFrames(Tail(ds))
LlmFrames(r) ==
  IF r.status = "ok" THEN ChunkFrames(r.deltas)
  ELSE IF r.status = "http_error" THEN <<ErrorFrame("llm", "")>>
  ELSE ChunkFrames(r.deltas) \o <<ErrorFrame("llm", "")>>

\* _call_llm_stream: full_content of the returned pair
LlmContent(r) == IF r.status = "http_error" THEN <<>> ELSE r.deltas

\* variant: the accumulated tool calls are returned on an error too
LlmToolCallsKeptOnError(r) == r.tcs
\* _call_llm_stream: tool_calls of the returned pair, None (here <<>>) on
\* every error return and when none was accumulated
LlmToolCalls(r) == IF r.status = "ok" THEN r.tcs ELSE <<>>

\* ------------------------------------------------ tool-call id handling
\* raw_id.replace("toolu_vrtx_", "")
RECURSIVE RemoveVrtx(_)
RemoveVrtx(s) ==
  IF Len(s) < 2 THEN s
  ELSE IF s[1] = "toolu_" /\ s[2] = "vrtx_"
       THEN RemoveVrtx(SubSeq(s, 3, Len(s)))
       ELSE <<s[1]>> \o RemoveVrtx(Tail(s))

\* .replace("toolu_", "")
RECURSIVE RemoveToolu(_)
RemoveToolu(s) ==
  IF s = <<>> THEN s
  ELSE IF Head(s) = "toolu_" THEN RemoveToolu(Tail(s))
       ELSE <<Head(s)>> \o RemoveToolu(Tail(s))

\* variant: only the empty id counts as canonical
IsCanonicalIdOnlyEmpty(raw) == raw = <<>>
\* not raw_id, or raw_id.startswith("call_")
IsCanonicalId(raw) == raw = <<>> \/ Head(raw) = "call_"

\* _normalize_tc_id: the returned id
NormalizeTcId(raw) ==
  IF IsCanonicalId(raw) THEN raw
  ELSE <<"call_">> \o RemoveToolu(RemoveVrtx(raw))

\* _normalize_tc_id: _id_remap after the call (a set of <<raw, new>> pairs)
RemapAfter(remap, raw) ==
  IF IsCanonicalId(raw) THEN remap
  ELSE {p \in remap : p[1] # raw} \cup {<<raw, NormalizeTcId(raw)>>}

\* _id_remap.get(id, id)
RemapGet(remap, id) ==
  IF \E p \in remap : p[1] = id
  THEN (CHOOSE p \in remap : p[1] = id)[2]
  ELSE id

\* the normalization loop over a list of tool calls: the copies, and the
\* remap table after it
RECURSIVE NormalizedCalls(_)
NormalizedCalls(tcs) ==
  IF tcs = <<>> THEN <<>>
  ELSE <<[Head(tcs) EXCEPT !.id = NormalizeTcId(@)]>> \o NormalizedCalls(Tail(tcs))
RECURSIVE RemapAfterCalls(_, _)
RemapAfterCalls(remap, tcs) ==
  IF tcs = <<>> THEN remap
  ELSE RemapAfterCalls(RemapAfter(remap, Head(tcs).id), Tail(tcs))

\* lines 320-336: the remap table after the stored transcript was replayed
RECURSIVE RemapOfTranscript(_, _)
RemapOfTranscript(remap, msgs) ==
  IF msgs = <<>> THEN remap
  ELSE RemapOfTranscript(RemapAfterCalls(remap, Head(msgs).tool_calls), Tail(msgs))

\* lines 378-395: the tool calls kept, in order: a non-empty name and an
\* argument string that is empty or parses
IsValidCall(tc) == tc.name # "" /\ tc.args # "garbage"
RECURSIVE ValidCalls(_)
ValidCalls(tcs) ==
  IF tcs = <<>> THEN <<>>
  ELSE (IF IsValidCall(Head(tcs)) THEN <<Head(tcs)>> ELSE <<>>)
       \o ValidCalls(Tail(tcs))

\* "\n\n".join(all_content_parts)
RECURSIVE JoinParts(_)
JoinParts(parts) ==
  IF parts = <<>> THEN <<>>
  ELSE IF Len(parts) = 1 THEN Head(parts)
  ELSE Head(parts) \o <<"\n\n">> \o JoinParts(Tail(parts))

AssistantMessage(t, tcs) == Message("assistant", t, NoId, tcs, "")
ToolMessage(t, tcid, n) == Message("tool", t, tcid, <<>>, n)
Placeholder == <<"(No response generated)">>
NotAvailable == <<"(Tool calling not yet available)">>
Cancelled == <<"Action cancelled by user.">>

\* ------------------------------------------------- the replayed list
\* session.messages[-20:]: the last 20 messages of the transcript
ContextWindow == 20
Window(msgs) ==
  IF Len(msgs) <= ContextWindow THEN msgs
  ELSE SubSeq(msgs, Len(msgs) - ContextWindow + 1, Len(msgs))

\* lines 321-336: llm_messages (without the system prompt) built from the
\* window: tool_call_id looked up in the remap table as it stands, the ids
\* of the tool calls normalized
RECURSIVE Replayed(_, _)
Replayed(remap, msgs) ==
  IF msgs = <<>> THEN <<>>
  ELSE <<[Head(msgs) EXCEPT !.tool_call_id = RemapGet(remap, @),
                            !.tool_calls = NormalizedCalls(@)]>>
       \o Replayed(RemapAfterCalls(remap, Head(msgs).tool_calls), Tail(msgs))

\* ------------------------------------------------------ the round loop
\* variant: an exception a provider raises is not caught
SwallowedUnlessRaised(b) == b # "raises"
\* the `except Exception` handlers around recall (270-273), query_context
\* (283-290) and store (362-370): what a provider call does, however it
\* behaves (b), stays inside its try block
Swallowed(b) == TRUE

\* message/chat with _stream_response entered (its write_enabled parameter
\* bound): user message appended and saved, memories recalled and graph
\* context queried for the system prompt (the memory client being mem, the
\* graph client being graph: absent, unavailable, raising, returning
\* nothing, or returning what it found), remap table built from the replayed
\* transcript, round 0 about to call the completion service
ChatAcceptedWith(c, m, mem, graph) ==
  /\ Received(c, m, "chat")
  /\ m.content = ChatOf(user[c].id)
  /\ Consume(c)
  /\ LET s == WithUserMessage(session[c], m.content) IN
       /\ session' = [session EXCEPT ![c] = s]
       /\ store' = SaveSession(store, s)
       /\ turn' = [turn EXCEPT ![c] =
                     [NoTurn EXCEPT
                        !.remap = RemapOfTranscript({}, Window(s.messages)),
                        !.llm_messages = Replayed({}, Window(s.messages)),
                        !.lenBefore = Len(session[c].messages),
                        !.memory = mem,
                        !.graph = graph,
                        !.system_prompt =
                           <<"base">>
                           \o (IF mem = "found" THEN <<"memories">> ELSE <<>>)
                           \o (IF graph = "found" THEN <<"graph">> ELSE <<>>)]]
  /\ turns' = [turns EXCEPT ![c] = @ + 1]
  /\ turnStart' = [turnStart EXCEPT ![c] = Len(frames[c])]
  /\ IF Swallowed(mem) /\ Swallowed(graph)
     THEN /\ pc' = [pc EXCEPT ![c] = "llm"]
          /\ UNCHANGED <<frames, ended, connections>>
     ELSE /\ frames' = Send(frames, c, ErrorFrame("exception", "error"))
          /\ connections' = [connections EXCEPT ![session[c].id] = 0]
          /\ ended' = [ended EXCEPT ![c] = "error"]
          /\ pc' = [pc EXCEPT ![c] = "closed"]
  /\ UNCHANGED <<config, cred, user, wenabled, closeCode, nextSid, hasRouter,
                 pending, results>>

\* the same on a gateway without memory client and graph client
ChatAccepted(c, m) == ChatAcceptedWith(c, m, "absent", "absent")

\* a chat turn on a session whose transcript is still short enough for the
\* model
RecvChatBound(c, m) ==
  /\ Len(session[c].messages) < MaxMessages
  /\ ChatAccepted(c, m)

\* range(max_tool_rounds + 1): the number of iterations of the round loop
RoundsAllowed == max_tool_rounds + 1

\* one call of _call_llm_stream with the completion service behaving as r
CallLLM(c, r) ==
  /\ pc[c] = "llm"
  /\ frames' = [frames EXCEPT ![c] = @ \o LlmFrames(r)]
  /\ turn' = [turn EXCEPT
       ![c].content = LlmContent(r),
       ![c].toolCalls = LlmToolCalls(r),
       ![c].parts = IF LlmContent(r) # <<>> THEN Append(@, LlmContent(r)) ELSE @,
       ![c].llmCalls = @ + 1,
       ![c].failed = @ \/ r.status # "ok",
       ![c].afterFail = IF turn[c].failed THEN @ + 1 ELSE @]
  /\ pc' = [pc EXCEPT ![c] = "round"]
  /\ UNCHANGED <<config, cred, user, session, wenabled, closeCode, ended, inbox, store, nextSid,
                 connections, hasRouter, pending, results, turnStart, turns>>

\* session.messages.append(...) followed by _save_session
AppendAndSave(c, msgs) ==
  LET s == [session[c] EXCEPT !.messages = @ \o msgs] IN
    /\ session' = [session EXCEPT ![c] = s]
    /\ store' = SaveSession(store, s)

\* variant: done_sent is not set in the no-tool-call branch
DoneSentAfterPlainUnset == FALSE
\* done_sent after the no-tool-call branch sent message_done
DoneSentAfterPlain == TRUE
\* done_sent after the all-malformed branch sent message_done (not assigned)
DoneSentAfterMalformed(before) == before

\* lines 349-373: no tool calls. With content, the assistant message is
\* appended, message_done sent, and the exchange handed to the memory
\* client's store, if there is one, before _save_session
RoundPlain(c) ==
  /\ pc[c] = "round"
  /\ turn[c].toolCalls = <<>>
  /\ IF turn[c].content = <<>>
     THEN /\ AppendAndSave(c, <<>>)
          /\ pc' = [pc EXCEPT ![c] = "finish"]
          /\ UNCHANGED <<frames, turn, ended, connections>>
     ELSE IF Swallowed(turn[c].memory)
     THEN /\ AppendAndSave(c, <<AssistantMessage(turn[c].content, <<>>)>>)
          /\ frames' = Send(frames, c, Frame("message_done", turn[c].content, <<>>))
          /\ turn' = [turn EXCEPT ![c].doneSent = DoneSentAfterPlain]
          /\ pc' = [pc EXCEPT ![c] = "finish"]
          /\ UNCHANGED <<ended, connections>>
     ELSE /\ session' = [session EXCEPT ![c].messages =
                           Append(@, AssistantMessage(turn[c].content, <<>>))]
          /\ frames' = [frames EXCEPT ![c] =
                          @ \o <<Frame("message_done", turn[c].content, <<>>),
                                 ErrorFrame("exception", "error")>>]
          /\ turn' = [turn EXCEPT ![c].doneSent = DoneSentAfterPlain]
          /\ connections' = [connections EXCEPT ![session[c].id] = 0]
          /\ ended' = [ended EXCEPT ![c] = "error"]
          /\ pc' = [pc EXCEPT ![c] = "closed"]
          /\ UNCHANGED store
  /\ UNCHANGED <<config, cred, user, wenabled, closeCode, inbox, nextSid,
                 hasRouter, pending, results, turnStart, turns>>

\* lines 397-409: every tool call was dropped
RoundMalformed(c) ==
  /\ pc[c] = "round"
  /\ turn[c].toolCalls # <<>>
  /\ hasRouter
  /\ ValidCalls(turn[c].toolCalls) = <<>>
  /\ IF turn[c].content # <<>>
     THEN /\ AppendAndSave(c, <<AssistantMessage(turn[c].content, <<>>)>>)
          /\ frames' = Send(frames, c, Frame("message_done", turn[c].content, <<>>))
          /\ turn' = [turn EXCEPT ![c].doneSent = DoneSentAfterMalformed(@)]
     ELSE /\ AppendAndSave(c, <<>>)
          /\ UNCHANGED <<frames, turn>>
  /\ pc' = [pc EXCEPT ![c] = "finish"]
  /\ UNCHANGED <<config, cred, user, wenabled, closeCode, ended, inbox, nextSid, connections,
                 hasRouter, pending, results, turnStart, turns>>

\* lines 458-465: tool calls but no skill router
RoundNoRouter(c) ==
  /\ pc[c] = "round"
  /\ turn[c].toolCalls # <<>>
  /\ ~hasRouter
  /\ AppendAndSave(c, <<AssistantMessage(
        IF turn[c].content # <<>> THEN turn[c].content ELSE NotAvailable, <<>>)>>)
  /\ pc' = [pc EXCEPT ![c] = "finish"]
  /\ UNCHANGED <<config, cred, user, wenabled, frames, closeCode, ended, inbox, nextSid,
                 connections, hasRouter, pending, results, turn, turnStart, turns>>

\* lines 411-430: ids normalized, assistant message with the tool calls
\* appended (not saved), the valid calls queued for execution
RoundTools(c) ==
  /\ pc[c] = "round"
  /\ turn[c].toolCalls # <<>>
  /\ hasRouter
  /\ ValidCalls(turn[c].toolCalls) # <<>>
  /\ session' = [session EXCEPT ![c].messages =
       Append(@, AssistantMessage(turn[c].content,
                                  NormalizedCalls(turn[c].toolCalls)))]
  /\ turn' = [turn EXCEPT
       ![c].remap = RemapAfterCalls(@, turn[c].toolCalls),
       ![c].llm_messages =
          Append(@, AssistantMessage(turn[c].content,
                                     NormalizedCalls(turn[c].toolCalls))),
       ![c].queue = ValidCalls(turn[c].toolCalls)]
  /\ pc' = [pc EXCEPT ![c] = "exec"]
  /\ UNCHANGED <<config, cred, user, wenabled, frames, closeCode, ended, inbox, store, nextSid,
                 connections, hasRouter, pending, results, turnStart, turns>>

\* --------------------------------------------------- SkillRouter.execute
\* get_confirmation_required over the loaded catalog: the catalog marks the
\* container-management action confirmation_required
CatalogConfirm(name) == name = ConfirmTool

\* EXECUTOR_MAP keys modelled besides PlainTool and ConfirmTool
BashTool == "bash-execution__run_command"
QueryTool == "postgresql-ops__query"

\* EXECUTOR_MAP.get(func_name) is not None
ExecutorNames == {PlainTool, ConfirmTool, BashTool, QueryTool}

\* ColonelConfig.enabled_skills: the default list
enabled_skills ==
  {"docker-management", "bash-execution", "system-status", "service-health",
   "log-viewer"}

\* func_name.split("__", 1)[0]: the skill a tool name belongs to
SkillOf(name) ==
  CASE name = PlainTool -> "system-status"
    [] name = ConfirmTool -> "docker-management"
    [] name = BashTool -> "bash-execution"
    [] name = QueryTool -> "postgresql-ops"
    [] name = GhostTool -> "ghost"
    [] OTHER -> name

\* the parsed arguments of a call, as far as the executors read them: a
\* command or query is its sequence of words, <<>> and "" stand for an
\* absent key, wkey is a "_write_enabled": true supplied by the model
NoParams ==
  [command |-> <<>>, container_name |-> "", action |-> "", query |-> <<>>,
   wkey |-> FALSE]

\* json.loads of the argument strings the completion service produces here;
\* "json" stands for arguments that fit the tool and touch nothing critical
Params(a) ==
  CASE a = "json" ->
         [command |-> <<"uptime">>, container_name |-> "web",
          action |-> "restart", query |-> <<"SELECT", "1">>, wkey |-> FALSE]
    [] a = "cmd_uptime" -> [NoParams EXCEPT !.command = <<"uptime">>]
    [] a = "cmd_rm_root" -> [NoParams EXCEPT !.command = <<"rm", "-rf", "/">>]
    [] a = "cmd_rm_home" -> [NoParams EXCEPT !.command = <<"rm", "-rf", "/home">>]
    [] a = "cmd_RM_ROOT" -> [NoParams EXCEPT !.command = <<"RM", "-RF", "/">>]
    [] a = "cmd_shutdown_rm" ->
         [NoParams EXCEPT !.command = <<"shutdown", ";", "rm", "-rf", "/">>]
    [] a = "cmd_stop_pg" ->
         [NoParams EXCEPT !.command = <<"docker", "stop", "unicorn-postgresql">>]
    [] a = "stop_pg" ->
         [NoParams EXCEPT !.container_name = "unicorn-postgresql",
                          !.action = "stop"]
    [] a = "stop_web" ->
         [NoParams EXCEPT !.container_name = "web", !.action = "stop"]
    [] a = "q_select" -> [NoParams EXCEPT !.query = <<"SELECT", "1">>]
    [] a = "q_delete" -> [NoParams EXCEPT !.query = <<"DELETE", "FROM", "t">>]
    [] a = "q_delete_w" ->
         [NoParams EXCEPT !.query = <<"DELETE", "FROM", "t">>, !.wkey = TRUE]
    [] OTHER -> NoParams

\* re.search of a two-word pattern "w1\s+(w2|...)"
Adjacent(cmd, w1, S2) ==
  \E i \in 1..(Len(cmd) - 1) : cmd[i] = w1 /\ cmd[i + 1] \in S2
\* re.search of a one-word pattern "\bw\b"
HasWord(cmd, w) == \E i \in 1..Len(cmd) : cmd[i] = w

\* re.IGNORECASE: the words of a command with their case folded
Fold(w) ==
  CASE w = "RM" -> "rm"
    [] w = "-RF" -> "-rf"
    [] w = "SHUTDOWN" -> "shutdown"
    [] w = "DROP" -> "drop"
    [] w = "DATABASE" -> "database"
    [] OTHER -> w

\* BLOCKED_PATTERNS, in the order of the list, as far as the commands here
\* can match them: rm of the root directory, shutdown, DROP DATABASE
BLOCKED_PATTERNS == <<"rm_root", "shutdown", "drop_database">>

\* re.search(pattern, command, re.IGNORECASE) is not None
Matches(pattern, cmd) ==
  LET f == [i \in 1..Len(cmd) |-> Fold(cmd[i])] IN
    CASE pattern = "rm_root" ->
           \E i \in 1..Len(f) :
             /\ f[i] = "rm"
             /\ \/ i + 1 = Len(f) /\ f[i + 1] = "/"
                \/ i + 2 = Len(f) /\ f[i + 1] \in {"-r", "-rf"} /\ f[i + 2] = "/"
      [] pattern = "shutdown" -> HasWord(f, "shutdown")
      [] pattern = "drop_database" -> Adjacent(f, "drop", {"database"})
      [] OTHER -> FALSE

\* variant: the loop runs to its end and the last matching pattern is kept
LastOf(hits) == CHOOSE i \in hits : \A j \in hits : i >= j
\* the loop over the list returns at the first pattern that matches
FirstOf(hits) == CHOOSE i \in hits : \A j \in hits : i <= j

\* the pattern the reason of validate_command names, "" when none matches
BlockedPattern(cmd) ==
  LET hits == {i \in 1..Len(BLOCKED_PATTERNS) : Matches(BLOCKED_PATTERNS[i], cmd)}
  IN IF hits = {} THEN "" ELSE BLOCKED_PATTERNS[FirstOf(hits)]

\* validate_command: allowed iff no blocked pattern matches
ValidateCommand(cmd) == BlockedPattern(cmd) = ""

\* requires_confirmation over CONFIRMATION_PATTERNS: a reason is returned
RequiresConfirmation(cmd) ==
  \/ Adjacent(cmd, "docker", {"stop", "kill", "rm", "restart"})
  \/ HasWord(cmd, "kill")
  \/ Adjacent(cmd, "DELETE", {"FROM"})

\* validate_docker_command: the protected containers and the guarded actions
Protected ==
  {"unicorn-postgresql", "unicorn-redis", "unicorn-keycloak",
   "ops-center-direct", "traefik"}
ValidateDockerCommand(container_name, action) ==
  ~(action \in {"stop", "kill", "rm", "remove"} /\ container_name \in Protected)

\* variant: only the catalog flag is consulted
NeedsConfirmCatalogOnly(call) == CatalogConfirm(call.name)
\* needs_confirm of execute: the catalog flag, or for the shell tool a
\* command that matches a confirmation pattern
NeedsConfirm(call) ==
  \/ CatalogConfirm(call.name)
  \/ /\ call.name = BashTool
     /\ Params(call.args).command # <<>>
     /\ RequiresConfirmation(Params(call.args).command)

\* exec_params = {**params}, with "_write_enabled" set when write_enabled
ExecParams(params, write_enabled) ==
  [params EXCEPT !.wkey = @ \/ write_enabled]

\* ------------------------------------------------------ skill_executor.py
\* what a call of an executor did: the text it returned, whether it raised,
\* whether a safety check refused it, whether a shell process was started,
\* and the container it stopped, killed or removed ("" for none)
Done(text, raised, blocked, started, stopped) ==
  [text |-> text, raised |-> raised, blocked |-> blocked,
   started |-> started, stopped |-> stopped]
Raised == Done(<<>>, TRUE, FALSE, FALSE, "")

\* the container a shell command "docker stop|kill|rm X" acts on
StoppedBy(cmd) ==
  IF Len(cmd) >= 3 /\ cmd[1] = "docker" /\ cmd[2] \in {"stop", "kill", "rm"}
  THEN cmd[3] ELSE ""

\* bash_execute: a blocked command returns the "Blocked: ..." text; otherwise
\* the shell process is started (o = "raise": it cannot be created, and the
\* error text is returned)
bash_execute(cmd, o) ==
  IF ~ValidateCommand(cmd)
  THEN Done(<<"Blocked:", BlockedPattern(cmd)>>, FALSE, TRUE, FALSE, "")
  ELSE IF o = "raise"
  THEN Done(<<"Error executing command">>, FALSE, FALSE, FALSE, "")
  ELSE Done(<<"out">>, FALSE, FALSE, TRUE, StoppedBy(cmd))

\* docker_manage_container: refused for a protected container; o = "raise"
\* is a docker error other than NotFound and APIError, which propagates
docker_manage_container(container_name, action, o) ==
  IF ~ValidateDockerCommand(container_name, action)
  THEN Done(<<"Blocked:", "critical_service">>, FALSE, TRUE, FALSE, "")
  ELSE IF o = "raise" THEN Raised
  ELSE Done(<<"out">>, FALSE, FALSE, FALSE,
            IF action \in {"stop", "kill"} THEN container_name ELSE "")

\* postgresql_query: reads always pass, writes pass with write_enabled, and
\* the query runs as a shell command through bash_execute
postgresql_query(query, write_enabled, o) ==
  IF \/ Head(query) = "SELECT"
     \/ write_enabled /\ Head(query) \in {"INSERT", "UPDATE", "DELETE"}
  THEN bash_execute(<<"docker", "exec", "unicorn-postgresql", "psql", "-c">>
                    \o query, o)
  ELSE Done(<<"Only SELECT">>, FALSE, FALSE, FALSE, "")

\* EXECUTOR_MAP[func_name](**exec_params): a required key that is absent
\* raises KeyError in the lambda
Executor(name, p, o) ==
  CASE name = PlainTool ->
         Done(IF o = "raise" THEN <<"Error:">> ELSE <<"out">>,
              FALSE, FALSE, FALSE, "")
    [] name = ConfirmTool ->
         IF p.container_name = "" \/ p.action = "" THEN Raised
         ELSE docker_manage_container(p.container_name, p.action, o)
    [] name = BashTool ->
         IF p.command = <<>> THEN Raised ELSE bash_execute(p.command, o)
    [] name = QueryTool ->
         IF p.query = <<>> THEN Raised
         ELSE postgresql_query(p.query, p.wkey, o)

\* variant: the except branch leaves success as it was
SuccessIfKnown(known, raised) == known
\* success of execute: True once the executor returned, False for an
\* unknown action and in the except branch
Success(known, raised) == known /\ ~raised

\* result of execute after the executor step
ResultText(known, d) ==
  IF ~known THEN <<"Unknown skill action">>
  ELSE IF d.raised THEN <<"Skill execution error">>
  ELSE d.text

\* variant: the tool-role message carries the raw id of the call
ToolResultMessageRawId(c, result) ==
  ToolMessage(result, Head(turn[c].queue).id, Head(turn[c].queue).name)
\* the tool-role message of lines 449-454 for the call at the queue head
ToolResultMessage(c, result) ==
  ToolMessage(result, RemapGet(turn[c].remap, Head(turn[c].queue).id),
              Head(turn[c].queue).name)

\* execute entered for the head of the queue, confirmation needed: the
\* confirm_required frame with a new id is sent (line 97)
ExecConfirm(c, id) ==
  /\ pc[c] = "exec"
  /\ turn[c].queue # <<>>
  /\ NeedsConfirm(Head(turn[c].queue))
  /\ frames' = Send(frames, c, Frame("confirm_required", <<id>>, <<>>))
  /\ turn' = [turn EXCEPT ![c].confirmId = id, ![c].approved = FALSE,
                          ![c].ownConfirm = FALSE, ![c].outcome = "none",
                          ![c].early = FALSE]
  /\ pc' = [pc EXCEPT ![c] = "register"]
  /\ UNCHANGED <<config, cred, user, session, wenabled, closeCode, ended, inbox, store, nextSid,
                 connections, hasRouter, pending, results, turnStart, turns>>

\* lines 105-108: the event is created and registered, the wait begins
ExecRegister(c) ==
  /\ pc[c] = "register"
  /\ pending' = [pending EXCEPT ![turn[c].confirmId] = "unset"]
  /\ pc' = [pc EXCEPT ![c] = "wait"]
  /\ UNCHANGED <<config, cred, user, session, wenabled, frames, closeCode, ended, inbox, store,
                 nextSid, connections, hasRouter, results, turn, turnStart, turns>>

\* execute entered, no confirmation needed
ExecDirect(c) ==
  /\ pc[c] = "exec"
  /\ turn[c].queue # <<>>
  /\ ~NeedsConfirm(Head(turn[c].queue))
  /\ turn' = [turn EXCEPT ![c].confirmId = "", ![c].approved = FALSE,
                          ![c].ownConfirm = FALSE, ![c].outcome = "none"]
  /\ pc' = [pc EXCEPT ![c] = "run"]
  /\ UNCHANGED <<config, cred, user, session, wenabled, frames, closeCode, ended, inbox, store,
                 nextSid, connections, hasRouter, pending, results, turnStart, turns>>

\* confirmed = self._confirmation_results.pop(confirm_id, False)
ConfirmedOnWake(res, id) == res[id] = "true"
\* variant: a timeout counts as an approval
ConfirmedOnTimeoutApproves == TRUE
\* confirmed = False in the TimeoutError handler
ConfirmedOnTimeout == FALSE

\* the finally block of the wait: _pending_confirmations.pop(confirm_id, None)
PoppedPending(pen, id) == [pen EXCEPT ![id] = "none"]
\* variant: the stored resolution value is left behind
PoppedResultsKept(res, id) == res
\* the finally block of the wait: _confirmation_results.pop(confirm_id, None)
PoppedResults(res, id) == [res EXCEPT ![id] = "absent"]

\* lines 116-121 and, when not confirmed, the return into lines 441-454:
\* both maps drop the id; a cancelled call returns the cancellation text,
\* which becomes the tool-role message
AfterWait(c, confirmed, how, fr) ==
  /\ pending' = PoppedPending(pending, turn[c].confirmId)
  /\ results' = PoppedResults(results, turn[c].confirmId)
  /\ frames' = fr
  /\ IF confirmed
     THEN /\ turn' = [turn EXCEPT ![c].outcome = "approved"]
          /\ pc' = [pc EXCEPT ![c] = "run"]
          /\ UNCHANGED session
     ELSE /\ turn' = [turn EXCEPT
               ![c].outcome = how, ![c].queue = Tail(@),
               ![c].llm_messages = Append(@, ToolResultMessage(c, Cancelled))]
          /\ session' = [session EXCEPT ![c].messages =
                           Append(@, ToolResultMessage(c, Cancelled))]
          /\ pc' = [pc EXCEPT ![c] = "exec"]
  /\ UNCHANGED <<config, cred, user, wenabled, closeCode, ended, inbox, store, nextSid,
                 connections, hasRouter, turnStart, turns>>

\* the event was set: wait_for returns
ConfirmWake(c) ==
  /\ pc[c] = "wait"
  /\ pending[turn[c].confirmId] = "set"
  /\ AfterWait(c, ConfirmedOnWake(results, turn[c].confirmId), "denied", frames)

\* variant: the timeout frame reports success
TimeoutFrameSuccess == Frame("skill_result", <<"true">>, <<"timeout">>)
\* the frame of the TimeoutError handler: skill_result, success False,
\* output "Confirmation timed out (60s)"
TimeoutFrame == Frame("skill_result", <<"false">>, <<"timeout">>)

\* 60 s passed with the event unset: TimeoutError, skill_result frame
ConfirmTimeout(c) ==
  /\ pc[c] = "wait"
  /\ pending[turn[c].confirmId] = "unset"
  /\ AfterWait(c, ConfirmedOnTimeout, "timeout", Send(frames, c, TimeoutFrame))

\* the handler task is cancelled while it waits: CancelledError passes the
\* finally block of the wait and every `except Exception` on its way out of
\* handle_websocket, whose finally block drops the registry entry
WaitCancelled(c) ==
  /\ pc[c] = "wait"
  /\ pending' = PoppedPending(pending, turn[c].confirmId)
  /\ results' = PoppedResults(results, turn[c].confirmId)
  /\ HandlerEnds(c, "cancelled", frames)
  /\ UNCHANGED <<config, cred, user, session, wenabled, closeCode, store, nextSid,
                 hasRouter, turn, turnStart, turns>>

\* the timeout fires but the client is gone: send_json of the timeout frame
\* raises inside the TimeoutError handler, the finally block runs, and the
\* exception ends the handler (its own error frame cannot be sent either)
ConfirmTimeoutSendFails(c) ==
  /\ pc[c] = "wait"
  /\ pending[turn[c].confirmId] = "unset"
  /\ pending' = PoppedPending(pending, turn[c].confirmId)
  /\ results' = PoppedResults(results, turn[c].confirmId)
  /\ HandlerEnds(c, "send_failed", frames)
  /\ UNCHANGED <<config, cred, user, session, wenabled, closeCode, store, nextSid,
                 hasRouter, turn, turnStart, turns>>

\* lines 167-186: get_db_pool raises or returns no pool ("no_pool"), or the
\* INSERT into colonel_audit_log raises ("insert_fails")
AuditFails(o) == o \in {"no_pool", "insert_fails"}

\* variant: a failed audit write replaces the value execute returns
ReturnedAuditError(result, o) ==
  IF AuditFails(o) THEN <<"Failed to write audit log">> ELSE result
\* lines 167-188: the audit write sits in try/except Exception, which only
\* logs a warning; `return result` follows it
Returned(result, o) == result

\* variant: the result frame is sent before the start frame
SkillFramesResultFirst(call, success, result) ==
  <<Frame("skill_result", <<BoolText(success)>>, result),
    Frame("skill_start", <<call.name>>, <<>>)>>
\* the frames of one executor step: skill_start before the executor is
\* called (lines 123-131), skill_result after it returned (lines 155-165)
SkillFrames(call, success, result) ==
  <<Frame("skill_start", <<call.name>>, <<>>),
    Frame("skill_result", <<BoolText(success)>>, result)>>

\* lines 123-188 and 441-454: skill_start, the executor (behaving as o),
\* skill_result, audit (failing for the o of AuditFails, with the executor
\* behaving well), and the tool-role message for the returned text.
\* Both sends sit in try/except-pass: with the client gone they fail
\* silently, and the executor runs all the same
ExecRun(c, o) ==
  /\ pc[c] = "run"
  /\ LET call == Head(turn[c].queue)
         known == call.name \in ExecutorNames
         p == ExecParams(Params(call.args), wenabled[c])
         d == IF known THEN Executor(call.name, p, o) ELSE Raised
         success == Success(known, d.raised)
         result == ResultText(known, d)
     IN /\ frames' = IF turn[c].gone THEN frames
                   ELSE [frames EXCEPT ![c] =
                           @ \o SkillFrames(call, success, result)]
        /\ session' = [session EXCEPT ![c].messages =
              Append(@, ToolResultMessage(c, Returned(result, o)))]
        /\ turn' = [turn EXCEPT
              ![c].queue = Tail(@),
              ![c].llm_messages =
                 Append(@, ToolResultMessage(c, Returned(result, o))),
              ![c].execs = IF known
                 THEN Append(@, [name |-> call.name,
                                 args |-> call.args,
                                 confirm |-> NeedsConfirm(call),
                                 approved |-> turn[c].approved,
                                 write |-> wenabled[c],
                                 wcap |-> p.wkey,
                                 raised |-> d.raised,
                                 blocked |-> d.blocked,
                                 started |-> d.started,
                                 stopped |-> d.stopped,
                                 success |-> success,
                                 audited |-> ~AuditFails(o)])
                 ELSE @,
              ![c].afterFail = IF turn[c].failed /\ known THEN @ + 1 ELSE @,
              ![c].sendFailed = @ \/ turn[c].gone,
              ![c].execsAfter = IF turn[c].gone /\ known THEN @ + 1 ELSE @]
  /\ pc' = [pc EXCEPT ![c] = "exec"]
  /\ UNCHANGED <<config, cred, user, wenabled, closeCode, ended, inbox, store, nextSid,
                 connections, hasRouter, pending, results, turnStart, turns>>

\* line 456: all calls of the round done, session saved, next iteration
RoundEnd(c) ==
  /\ pc[c] = "exec"
  /\ turn[c].queue = <<>>
  /\ store' = SaveSession(store, session[c])
  /\ turn' = [turn EXCEPT ![c].round = @ + 1, ![c].outcome = "none"]
  /\ pc' = [pc EXCEPT ![c] =
       IF turn[c].round + 1 < RoundsAllowed THEN "llm" ELSE "finish"]
  /\ UNCHANGED <<config, cred, user, session, wenabled, frames, closeCode, ended, inbox, nextSid,
                 connections, hasRouter, pending, results, turnStart, turns>>

\* lines 470-488: the safety net, then back to receive_text
Finish(c) ==
  /\ pc[c] = "finish"
  /\ IF turn[c].doneSent
     THEN UNCHANGED <<session, store, frames>>
     ELSE LET final == JoinParts(turn[c].parts)
              msgs == session[c].messages
              add == final # <<>> /\ (msgs = <<>> \/ msgs[Len(msgs)].content # final)
          IN /\ AppendAndSave(c, IF add THEN <<AssistantMessage(final, <<>>)>>
                                 ELSE <<>>)
             /\ frames' = Send(frames, c, Frame("message_done",
                                 IF final # <<>> THEN final ELSE Placeholder, <<>>))
  /\ pc' = [pc EXCEPT ![c] = "idle"]
  /\ UNCHANGED <<config, cred, user, wenabled, closeCode, ended, inbox, nextSid, connections,
                 hasRouter, pending, results, turn, turnStart, turns>>

\* ------------------------------------------------- the turn specification
TurnConn == 1
RelayConn == 2

\* both connections accepted, each on a session of its own user; the turn
\* connection holds a session whose transcript is one of T (lines 181-188)
InitResumed(T) ==
  /\ pc = [c \in Conns |-> "idle"]
  /\ config \in [adminOnly : {FALSE}, we : BOOLEAN]
  /\ cred = [c \in Conns |->
       [token |-> IF c = TurnConn THEN "tok_u1" ELSE "tok_u2",
        sid |-> NoSid, before |-> c]]
  /\ user = [c \in Conns |-> Authenticate(cred[c].token)]
  /\ \E t \in T :
       session = [c \in Conns |->
         [NewSession(c, user[c].id) EXCEPT
            !.messages = IF c = TurnConn THEN t ELSE <<>>]]
  /\ wenabled = [c \in Conns |-> config.we]
  /\ frames = [c \in Conns |-> <<Frame("connected", <<ToString(c)>>, <<BoolText(config.we)>>)>>]
  /\ closeCode = [c \in Conns |-> 0]
  /\ ended = [c \in Conns |-> "no"]
  /\ store = [s \in SessionIds |-> IF s \in Conns THEN session[s] ELSE NoSession]
  /\ nextSid = Cardinality(Conns) + 1
  /\ connections = [s \in SessionIds |-> IF s \in Conns THEN s ELSE 0]
  /\ hasRouter \in BOOLEAN
  /\ pending = [i \in ConfirmIds |-> "none"]
  /\ results = [i \in ConfirmIds |-> "absent"]
  /\ turn = [c \in Conns |-> NoTurn]
  /\ turnStart = [c \in Conns |-> 0]
  /\ turns = [c \in Conns |-> 0]

\* both handlers are in the receive loop on sessions created at connect
InitAccepted == InitResumed({<<>>})

InitTurn ==
  /\ InitAccepted
  /\ inbox = [c \in Conns |-> <<>>]

\* what the client of the turn connection sends while execute waits: an
\* approval of the confirmation it was asked for
TurnPayloads(c) ==
  IF pc[c] = "wait" THEN {Payload("confirm", turn[c].confirmId, TRUE, <<>>)}
  ELSE {}

\* some execute call is waiting on confirmation id
Awaited(id) == \E w \in Conns : pc[w] = "wait" /\ turn[w].confirmId = id

NextTurn ==
  \/ \E p \in TurnPayloads(TurnConn) : ClientSend(TurnConn, p)
  \/ \E m \in Payloads : inbox[TurnConn] # <<>> /\ RecvConfirm(TurnConn, m)
  \/ \E m \in Payloads : Awaited(m.cid) /\ RecvConfirm(RelayConn, m)
  \/ \E m \in Payloads : RecvChatBound(TurnConn, m)
  \/ \E r \in Responses(turn[TurnConn].round) : CallLLM(TurnConn, r)
  \/ RoundPlain(TurnConn)
  \/ RoundMalformed(TurnConn)
  \/ RoundNoRouter(TurnConn)
  \/ RoundTools(TurnConn)
  \/ \E id \in ConfirmIds : ExecConfirm(TurnConn, id)
  \/ ExecRegister(TurnConn)
  \/ ExecDirect(TurnConn)
  \/ ConfirmWake(TurnConn)
  \/ ConfirmTimeout(TurnConn)
  \/ WaitCancelled(TurnConn)
  \/ ConfirmTimeoutSendFails(TurnConn)
  \/ \E o \in Outcomes(turn[TurnConn].round) : ExecRun(TurnConn, o)
  \/ RoundEnd(TurnConn)
  \/ Finish(TurnConn)

SpecTurn == InitTurn /\ [][NextTurn]_vars

\* ------------------------------------------ the confirmation specification
\* turns whose tool calls are well formed; in the first round the call may
\* be one for the action that needs confirmation
ConfirmResponses(round) ==
  LaterResponses
  \cup (IF round = 0
        THEN {Resp("ok", <<"c1">>,
                   <<ToolCall(<<"toolu_", "a">>, ConfirmTool, "json")>>)}
        ELSE {})

NextConfirm ==
  \/ \E p \in TurnPayloads(TurnConn) : ClientSend(TurnConn, p)
  \/ \E m \in Payloads : inbox[TurnConn] # <<>> /\ RecvConfirm(TurnConn, m)
  \/ \E m \in Payloads : Awaited(m.cid) /\ RecvConfirm(RelayConn, m)
  \/ \E m \in Payloads : RecvChatBound(TurnConn, m)
  \/ \E r \in ConfirmResponses(turn[TurnConn].round) : CallLLM(TurnConn, r)
  \/ RoundPlain(TurnConn)
  \/ RoundNoRouter(TurnConn)
  \/ RoundTools(TurnConn)
  \/ \E id \in ConfirmIds : ExecConfirm(TurnConn, id)
  \/ ExecRegister(TurnConn)
  \/ ExecDirect(TurnConn)
  \/ ConfirmWake(TurnConn)
  \/ ConfirmTimeout(TurnConn)
  \/ WaitCancelled(TurnConn)
  \/ ConfirmTimeoutSendFails(TurnConn)
  \/ ExecRun(TurnConn, "ok")
  \/ RoundEnd(TurnConn)
  \/ Finish(TurnConn)

\* asyncio.wait_for(event.wait(), timeout=60.0): the timer of a wait whose
\* event stays unset does fire
SpecConfirmFair ==
  InitTurn /\ [][NextConfirm]_vars /\ WF_vars(ConfirmTimeout(TurnConn))

\* ------------------------------------------- turns that exercise executors
\* the tool calls of the executor study: shell commands, container actions
\* and queries, harmless, blocked, protected and with a model-supplied
\* "_write_enabled" key, plus an unregistered tool
ExecCalls ==
  {ToolCall(<<"call_", "a">>, BashTool, a) :
     a \in {"cmd_uptime", "cmd_rm_root", "cmd_rm_home", "cmd_RM_ROOT",
            "cmd_shutdown_rm", "cmd_stop_pg", ""}}
  \cup {ToolCall(<<"call_", "a">>, ConfirmTool, a) : a \in {"stop_pg", "stop_web"}}
  \cup {ToolCall(<<"call_", "a">>, QueryTool, a) :
          a \in {"q_select", "q_delete", "q_delete_w"}}
  \cup {ToolCall(<<"call_", "a">>, GhostTool, "json"),
        ToolCall(<<"toolu_", "a">>, PlainTool, "json")}

\* one tool call in the first round, or two calls of one response whose
\* provider ids differ only in the vrtx_ part; plain text afterwards
ExecResponses(round) ==
  IF round = 0
  THEN {Resp("ok", <<>>, <<t>>) : t \in ExecCalls}
       \cup {Resp("ok", <<>>,
                   <<ToolCall(<<"toolu_", "a">>, PlainTool, "json"),
                     ToolCall(<<"toolu_", "vrtx_", "a">>, PlainTool, "json")>>)}
  ELSE {Resp("ok", <<"c1">>, <<>>)}

InitExec ==
  /\ InitTurn
  /\ hasRouter

NextExec ==
  \/ \E m \in Payloads : Awaited(m.cid) /\ RecvConfirm(RelayConn, m)
  \/ \E m \in Payloads : RecvChatBound(TurnConn, m)
  \/ \E r \in ExecResponses(turn[TurnConn].round) : CallLLM(TurnConn, r)
  \/ RoundPlain(TurnConn)
  \/ RoundTools(TurnConn)
  \/ \E id \in ConfirmIds : ExecConfirm(TurnConn, id)
  \/ ExecRegister(TurnConn)
  \/ ExecDirect(TurnConn)
  \/ ConfirmWake(TurnConn)
  \/ ConfirmTimeout(TurnConn)
  \/ \E o \in {"ok", "raise", "no_pool", "insert_fails"} : ExecRun(TurnConn, o)
  \/ RoundEnd(TurnConn)
  \/ Finish(TurnConn)

SpecExec == InitExec /\ [][NextExec]_vars

\* ------------------------------------------- turns whose client goes away
\* the client closes the connection while a turn runs: from now on every
\* send_json on the connection raises
ClientGone(c) ==
  /\ pc[c] \in {"llm", "round", "exec", "run", "finish"}
  /\ ~turn[c].gone
  /\ turn' = [turn EXCEPT ![c].gone = TRUE]
  /\ UNCHANGED <<pc, config, cred, user, session, wenabled, frames, closeCode,
                 ended, inbox, store, nextSid, connections, hasRouter, pending,
                 results, turnStart, turns>>

\* _call_llm_stream with the client gone: the request is made; the first
\* frame it has to send raises inside the try, the error frame of the
\* `except Exception` handler raises again, and that exception leaves
\* _stream_response and ends the handler. A stream without content deltas
\* sends nothing and returns as usual
CallLLMGone(c, r) ==
  /\ pc[c] = "llm"
  /\ turn[c].gone
  /\ IF LlmFrames(r) # <<>>
     THEN /\ turn' = [turn EXCEPT
               ![c].llmCalls = @ + 1,
               ![c].llmAfter = IF turn[c].sendFailed THEN @ + 1 ELSE @,
               ![c].sendFailed = TRUE]
          /\ HandlerEnds(c, "send_failed", frames)
     ELSE /\ turn' = [turn EXCEPT
               ![c].content = LlmContent(r),
               ![c].toolCalls = LlmToolCalls(r),
               ![c].llmCalls = @ + 1,
               ![c].llmAfter = IF turn[c].sendFailed THEN @ + 1 ELSE @]
          /\ pc' = [pc EXCEPT ![c] = "round"]
          /\ UNCHANGED <<frames, connections, ended, inbox>>
  /\ UNCHANGED <<config, cred, user, session, wenabled, closeCode, store, nextSid,
                 hasRouter, pending, results, turnStart, turns>>

\* lines 349-360 with the client gone: the assistant message is appended,
\* the message_done send raises before _save_session, the handler ends
RoundPlainGone(c) ==
  /\ pc[c] = "round"
  /\ turn[c].gone
  /\ turn[c].toolCalls = <<>>
  /\ turn[c].content # <<>>
  /\ session' = [session EXCEPT ![c].messages =
                   Append(@, AssistantMessage(turn[c].content, <<>>))]
  /\ turn' = [turn EXCEPT ![c].sendFailed = TRUE]
  /\ HandlerEnds(c, "send_failed", frames)
  /\ UNCHANGED <<config, cred, user, wenabled, closeCode, store, nextSid,
                 hasRouter, pending, results, turnStart, turns>>

\* lines 470-488 with the client gone and done_sent false: the message_done
\* send raises before _save_session, the handler ends
FinishGone(c) ==
  /\ pc[c] = "finish"
  /\ turn[c].gone
  /\ ~turn[c].doneSent
  /\ LET final == JoinParts(turn[c].parts)
         msgs == session[c].messages
         add == final # <<>> /\ (msgs = <<>> \/ msgs[Len(msgs)].content # final)
     IN session' = [session EXCEPT ![c].messages =
                      IF add THEN Append(@, AssistantMessage(final, <<>>)) ELSE @]
  /\ turn' = [turn EXCEPT ![c].sendFailed = TRUE]
  /\ HandlerEnds(c, "send_failed", frames)
  /\ UNCHANGED <<config, cred, user, wenabled, closeCode, store, nextSid,
                 hasRouter, pending, results, turnStart, turns>>

\* what the completion service returns in these turns: text, nothing, or one
\* call of a tool that needs no confirmation, with or without text
CloseResponses ==
  {Resp("ok", t, tcs) : t \in {<<>>, <<"c1">>}, tcs \in {<<>>, <<Canonical>>}}

NextClose ==
  \/ \E m \in Payloads : RecvChatBound(TurnConn, m)
  \/ ClientGone(TurnConn)
  \/ \E r \in CloseResponses : ~turn[TurnConn].gone /\ CallLLM(TurnConn, r)
  \/ \E r \in CloseResponses : CallLLMGone(TurnConn, r)
  \/ (~turn[TurnConn].gone \/ turn[TurnConn].content = <<>>) /\ RoundPlain(TurnConn)
  \/ RoundPlainGone(TurnConn)
  \/ RoundTools(TurnConn)
  \/ ExecDirect(TurnConn)
  \/ ExecRun(TurnConn, "ok")
  \/ RoundEnd(TurnConn)
  \/ (~turn[TurnConn].gone \/ turn[TurnConn].doneSent) /\ Finish(TurnConn)
  \/ FinishGone(TurnConn)

SpecClose == InitExec /\ [][NextClose]_vars

\* ------------------------------------- confirms racing the registration
\* the confirmation flow with an answer that may arrive as soon as the
\* frame is out (the execute call has sent it, line 97, and has not yet left
\* the wait): send_json of line 97 is an await, so another connection's
\* message loop can run handle_confirmation before line 106 registers
NextRace ==
  \/ \E m \in Payloads :
       /\ pc[TurnConn] \in {"register", "wait"}
       /\ turn[TurnConn].confirmId = m.cid
       /\ RecvConfirm(RelayConn, m)
  \/ \E m \in Payloads : RecvChatBound(TurnConn, m)
  \/ \E r \in ConfirmResponses(turn[TurnConn].round) : CallLLM(TurnConn, r)
  \/ RoundPlain(TurnConn)
  \/ RoundTools(TurnConn)
  \/ \E id \in ConfirmIds : ExecConfirm(TurnConn, id)
  \/ ExecRegister(TurnConn)
  \/ ExecDirect(TurnConn)
  \/ ConfirmWake(TurnConn)
  \/ ConfirmTimeout(TurnConn)
  \/ ExecRun(TurnConn, "ok")
  \/ RoundEnd(TurnConn)
  \/ Finish(TurnConn)

SpecRace == InitExec /\ [][NextRace]_vars

\* ------------------------------------ tool calls streamed in fragments
MaxFragments == 4

\* variant: a name or argument piece replaces what was accumulated
JoinedReplaced(old, piece) == piece
\* tc["function"]["name"] += func["name"], and the same for "arguments"
\* (an absent or empty piece adds nothing)
Joined(old, piece) == old \o piece

\* lines 571-586: current_tool_calls after one tool-call fragment. The entry
\* of the fragment's index is created on its first fragment; an id in the
\* fragment replaces the entry's id
AddFragment(cur, tc_delta) ==
  LET idx == tc_delta.index
      tc == IF idx \in DOMAIN cur THEN cur[idx] ELSE ToolCall(tc_delta.id, "", "")
      after == ToolCall(IF tc_delta.id # <<>> THEN tc_delta.id ELSE tc.id,
                        Joined(tc.name, tc_delta.name),
                        Joined(tc.args, tc_delta.args))
  IN [i \in DOMAIN cur \cup {idx} |-> IF i = idx THEN after ELSE cur[i]]

\* line 598: [current_tool_calls[i] for i in sorted(current_tool_calls.keys())]
SortedCalls(cur) ==
  [k \in 1..Cardinality(DOMAIN cur) |->
     cur[CHOOSE i \in DOMAIN cur :
           Cardinality({j \in DOMAIN cur : j < i}) = k - 1]]

\* the fragments a provider streams for the call at an index: first the id
\* with the head of the name and of the argument string, then their tails
Fragments(i) ==
  <<[index |-> i, id |-> <<"call_", IF i = 0 THEN "a" ELSE "b">>,
     name |-> "system-status__", args |-> "js"],
    [index |-> i, id |-> <<>>, name |-> "cpu", args |-> "on"]>>

\* one SSE line with a tool-call fragment is read in the stream of round 0
StreamFragment(c, tc_delta) ==
  /\ pc[c] = "llm"
  /\ turn[c].round = 0
  /\ Len(turn[c].arrived) < MaxFragments
  /\ turn' = [turn EXCEPT
       ![c].arrived = Append(@, tc_delta),
       ![c].current_tool_calls = AddFragment(@, tc_delta)]
  /\ UNCHANGED <<pc, config, cred, user, session, wenabled, frames, closeCode,
                 ended, inbox, store, nextSid, connections, hasRouter, pending,
                 results, turnStart, turns>>

\* how the stream of a round ends: with [DONE] once every call it began is
\* complete, or in an error at any point; later rounds answer in plain text
StreamEnds(c) ==
  IF turn[c].round > 0 THEN {Resp("ok", <<"c1">>, <<>>)}
  ELSE {Resp(k, <<>>, SortedCalls(turn[c].current_tool_calls)) :
          k \in {k \in {"ok", "stream_error", "read_timeout"} :
                   k = "ok" =>
                     \A i \in {0, 1} :
                       SelectSeq(turn[c].arrived, LAMBDA f : f.index = i)
                         \in {<<>>, Fragments(i)}}}

NextStream ==
  \/ \E m \in Payloads : RecvChatBound(TurnConn, m)
  \/ \E i \in {0, 1} :
       \E n \in {1, 2} :
         StreamFragment(TurnConn, Fragments(i)[n])
  \/ \E r \in StreamEnds(TurnConn) : CallLLM(TurnConn, r)
  \/ RoundPlain(TurnConn)
  \/ RoundTools(TurnConn)
  \/ ExecDirect(TurnConn)
  \/ ExecRun(TurnConn, "ok")
  \/ RoundEnd(TurnConn)
  \/ Finish(TurnConn)

SpecStream == InitExec /\ [][NextStream]_vars

\* --------------------------------- two execute calls asking at the same time
\* both users chat, and each turn's first round calls the action that needs
\* confirmation: confirm_id = str(uuid.uuid4())[:8] (line 93) is drawn for
\* each call without a look at _pending_confirmations, so the two draws can
\* yield the same eight characters
NextTwoWaiters ==
  \/ \E c \in Conns, m \in Payloads : RecvChatBound(c, m)
  \/ \E c \in Conns, m \in Payloads : Awaited(m.cid) /\ RecvConfirm(c, m)
  \/ \E c \in Conns :
       CallLLM(c, IF turn[c].round = 0
                  THEN Resp("ok", <<>>, <<ToolCall(<<"call_", "a">>, ConfirmTool, "json")>>)
                  ELSE Resp("ok", <<"c1">>, <<>>))
  \/ \E c \in Conns : RoundPlain(c)
  \/ \E c \in Conns : RoundTools(c)
  \/ \E c \in Conns, id \in ConfirmIds : ExecConfirm(c, id)
  \/ \E c \in Conns : ExecRegister(c)
  \/ \E c \in Conns : ConfirmWake(c)
  \/ \E c \in Conns : ConfirmTimeout(c)
  \/ \E c \in Conns : ExecRun(c, "ok")
  \/ \E c \in Conns : RoundEnd(c)
  \/ \E c \in Conns : Finish(c)

SpecTwoWaiters == InitExec /\ [][NextTwoWaiters]_vars

\* -------------------------------- turns with memory and graph providers
\* a chat turn on a gateway whose memory client and graph client are
\* absent, raise, return nothing or return what they found, answered in
\* plain text or after one tool call
NextProviders ==
  \/ \E m \in Payloads,
          mem \in {"absent", "raises", "nothing", "found"},
          graph \in {"absent", "unavailable", "raises", "nothing", "found"} :
       /\ Len(session[TurnConn].messages) < MaxMessages
       /\ ChatAcceptedWith(TurnConn, m, mem, graph)
  \/ \E r \in {Resp("ok", <<"c1">>, <<>>), Resp("ok", <<"c1", "c2">>, <<>>),
                Resp("ok", <<>>, <<>>)}
              \cup (IF turn[TurnConn].round = 0
                    THEN {Resp("ok", <<>>, <<Canonical>>)} ELSE {}) :
       CallLLM(TurnConn, r)
  \/ RoundPlain(TurnConn)
  \/ RoundTools(TurnConn)
  \/ ExecDirect(TurnConn)
  \/ ExecRun(TurnConn, "ok")
  \/ RoundEnd(TurnConn)
  \/ Finish(TurnConn)

SpecProviders == InitExec /\ [][NextProviders]_vars

\* ------------------------------------------- turns on a resumed session
\* earlier turns as the round loop leaves them in the transcript: a plain
\* answer, and an answer after a round with one or with two tool calls
MaxPast == 9
RECURSIVE Repeat(_, _)
Repeat(block, n) == IF n = 0 THEN <<>> ELSE block \o Repeat(block, n - 1)
StoredTranscripts ==
  LET CallB == ToolCall(<<"call_", "b">>, PlainTool, "json")
      PastPlain == <<UserMessage(<<"q">>), AssistantMessage(<<"c1">>, <<>>)>>
      PastTool ==
        <<UserMessage(<<"q">>), AssistantMessage(<<>>, <<Canonical>>),
          ToolMessage(<<"out">>, Canonical.id, PlainTool),
          AssistantMessage(<<"c1">>, <<>>)>>
      PastTwoTools ==
        <<UserMessage(<<"q">>), AssistantMessage(<<>>, <<Canonical, CallB>>),
          ToolMessage(<<"out">>, Canonical.id, PlainTool),
          ToolMessage(<<"out">>, CallB.id, PlainTool),
          AssistantMessage(<<"c1">>, <<>>)>>
  IN {first \o Repeat(PastPlain, n) :
        first \in {<<>>, PastTool, PastTwoTools}, n \in 0..MaxPast}

\* the first chat turn of a handler that resumed a stored session: text,
\* or one tool call in the first round and text afterwards
NextReplay ==
  \/ \E m \in Payloads : turns[TurnConn] = 0 /\ ChatAccepted(TurnConn, m)
  \/ \E r \in {Resp("ok", <<"c1">>, <<>>)}
              \cup (IF turn[TurnConn].round = 0
                    THEN {Resp("ok", <<>>, <<Canonical>>)} ELSE {}) :
       CallLLM(TurnConn, r)
  \/ RoundPlain(TurnConn)
  \/ RoundTools(TurnConn)
  \/ ExecDirect(TurnConn)
  \/ ExecRun(TurnConn, "ok")
  \/ RoundEnd(TurnConn)
  \/ Finish(TurnConn)

\* a handler that resumed one of the stored sessions, with a skill router
InitReplay ==
  /\ InitResumed(StoredTranscripts)
  /\ inbox = [c \in Conns |-> <<>>]
  /\ hasRouter = TRUE

SpecReplay == InitReplay /\ [][NextReplay]_vars

\* ------------------------------------------------ the loop specification
\* _message_loop as written, on two accepted connections whose clients have
\* payloads under way: receive_text hands them over one by one
RECURSIVE SeqsUpTo(_, _)
SeqsUpTo(S, n) ==
  IF n = 0 THEN {<<>>}
  ELSE LET shorter == SeqsUpTo(S, n - 1)
       IN shorter \cup {Append(q, x) : q \in shorter, x \in S}

InitLoop ==
  /\ InitAccepted
  /\ inbox \in [Conns -> SeqsUpTo(Payloads, MaxInbox)]

Queued(c) == inbox[c] # <<>>

NextLoop ==
  \/ \E c \in Conns : Queued(c) /\ Disconnect(c)
  \/ \E c \in Conns, m \in Payloads : Queued(c) /\ RecvInvalidJson(c, m)
  \/ \E c \in Conns, m \in Payloads : Queued(c) /\ RecvNonObject(c, m)
  \/ \E c \in Conns, m \in Payloads : Queued(c) /\ RecvPing(c, m)
  \/ \E c \in Conns, m \in Payloads : Queued(c) /\ RecvConfirm(c, m)
  \/ \E c \in Conns, m \in Payloads : Queued(c) /\ RecvOther(c, m)
  \/ \E c \in Conns, m \in Payloads : Queued(c) /\ RecvChatEmpty(c, m)
  \/ \E c \in Conns, m \in Payloads : Queued(c) /\ RecvChat(c, m)

SpecLoop == InitLoop /\ [][NextLoop]_vars

\* ---------------------------------------------- the shared-session runs
\* the owner opens connections, with or without the id of the session the
\* first one created, and chats on them: handle_websocket gives each its
\* own handler task, and each handler runs its own round loop
InitShared ==
  /\ Init
  /\ ~config.adminOnly
  /\ hasRouter

NextShared ==
  \/ \E c \in Conns, sid \in {NoSid, 1} : Connect(c, "tok_u1", sid)
  \/ \E c \in Conns, m \in Payloads : RecvChatBound(c, m)
  \/ \E c \in Conns,
          r \in {Resp("ok", <<"c1">>, <<>>), Resp("ok", <<>>, <<Canonical>>)} :
       CallLLM(c, r)
  \/ \E c \in Conns : RoundPlain(c)
  \/ \E c \in Conns : RoundTools(c)
  \/ \E c \in Conns : ExecDirect(c)
  \/ \E c \in Conns : ExecRun(c, "ok")
  \/ \E c \in Conns : RoundEnd(c)
  \/ \E c \in Conns : Finish(c)

SpecShared == InitShared /\ [][NextShared]_vars

\* no execute call runs under Spec, so no confirmation is ever awaited there:
\* a confirm frame is a stray one, and one id stands for all of them
Next ==
  \/ \E c \in Conns, token \in {"missing", "tok_u1", "tok_u2"}, sid \in SessionIds \cup {NoSid} :
       Connect(c, token, sid)
  \/ \E c \in Conns : Disconnect(c)
  \/ \E c \in Conns, m \in Payloads : RecvInvalidJson(c, m)
  \/ \E c \in Conns, m \in Payloads : RecvNonObject(c, m)
  \/ \E c \in Conns, m \in Payloads : RecvPing(c, m)
  \/ \E c \in Conns, m \in {p \in Payloads : p.cid = "k1"} : RecvConfirm(c, m)
  \/ \E c \in Conns, m \in Payloads : RecvOther(c, m)
  \/ \E c \in Conns, m \in Payloads : RecvChatEmpty(c, m)
  \/ \E c \in Conns, m \in Payloads : RecvChat(c, m)

Spec == Init /\ [][Next]_vars

\* ================================================================ claims
\* ---------------------------------------------------------------- C1
LastMessage(c) == session[c].messages[Len(session[c].messages)]

\* C1: an action that needs confirmation reaches its executor only when an
\* approval (confirmed = true) for the confirmation id of that call was
\* recorded while the call waited; after a denial or a timeout the call has
\* returned the cancellation text, which is the tool-role message, and the
\* executor step is skipped (the loop is back at the queue).
C1_ExecutorOnlyAfterApproval ==
  \A c \in Conns :
    /\ \A i \in 1..Len(turn[c].execs) :
         turn[c].execs[i].confirm => turn[c].execs[i].approved
    /\ turn[c].outcome \in {"denied", "timeout"} =>
         /\ pc[c] = "exec"
         /\ LastMessage(c).role = "tool"
         /\ LastMessage(c).content = Cancelled
    /\ pc[c] = "run" /\ NeedsConfirm(Head(turn[c].queue)) =>
         turn[c].outcome = "approved" /\ turn[c].approved

\* C1 witness: a confirmation-requiring action was executed after approval
C1_Witness ==
  \E c \in Conns : \E i \in 1..Len(turn[c].execs) :
    turn[c].execs[i].confirm /\ turn[c].execs[i].approved

\* ---------------------------------------------------------------- C2
\* C2: when the client approved the pending confirmation on the connection
\* of the waiting turn, the wait does not end in a timeout.
C2_OwnConfirmResolves ==
  \A c \in Conns : turn[c].ownConfirm => turn[c].outcome # "timeout"

\* ---------------------------------------------------------------- C3
\* C3: a turn that is back in the receive loop has sent exactly one
\* message_done frame.
C3_ExactlyOneMessageDone ==
  \A c \in Conns :
    (pc[c] = "idle" /\ turns[c] > 0) =>
      CountType(TurnFrames(c), "message_done") = 1

\* ---------------------------------------------------------------- C4
\* C4: within one turn the completion service is called at most
\* max_tool_rounds (5) times.
C4_AtMostRoundLimitCalls ==
  \A c \in Conns : turn[c].llmCalls <= max_tool_rounds

\* ---------------------------------------------------------------- C5
\* every tool-role message of a transcript names the id of a tool call of
\* an assistant message that stands earlier in the transcript
ToolIdsMatch(msgs) ==
  \A i \in 1..Len(msgs) :
    msgs[i].role = "tool" =>
      \E j \in 1..(i - 1) :
        /\ msgs[j].role = "assistant"
        /\ \E k \in 1..Len(msgs[j].tool_calls) :
             msgs[j].tool_calls[k].id = msgs[i].tool_call_id

\* C5: in every transcript, held by a handler or stored, each tool-role
\* message's tool_call_id equals the normalized id of a tool-call descriptor
\* of an assistant message appended earlier.
C5_ToolMessagesNameEarlierCall ==
  /\ \A c \in Conns : ToolIdsMatch(session[c].messages)
  /\ \A x \in SessionIds : ToolIdsMatch(store[x].messages)

\* C5 witness: a call whose raw id was rewritten has its tool-role message
\* in the stored transcript
C5_Witness ==
  \E c \in Conns :
    /\ turn[c].toolCalls = <<ToolCall(<<"toolu_", "vrtx_", "a">>, PlainTool, "json")>>
    /\ store[session[c].id].messages # <<>>
    /\ LET msgs == store[session[c].id].messages IN
         /\ msgs[Len(msgs)].role = "tool"
         /\ msgs[Len(msgs)].tool_call_id = <<"call_", "a">>

\* ---------------------------------------------------------------- C6
\* C6: a connection that began a chat turn has not been ended by the
\* server: it is in the receive loop, or its client went away.
C6_ChatTurnKeepsConnection ==
  \A c \in Conns :
    turns[c] > 0 => (pc[c] # "closed" \/ ended[c] = "disconnect")

\* ---------------------------------------------------------------- C7
\* C7: whenever the receive loop takes an unparsable payload or one of an
\* unknown type, it sends exactly one frame, an error frame, leaves the
\* transcript as it was, and stays in the loop.
C7_UnknownPayloadAnswered ==
  [][\A c \in Conns, m \in Payloads :
       (RecvInvalidJson(c, m) \/ RecvOther(c, m)) =>
         /\ Len(frames'[c]) = Len(frames[c]) + 1
         /\ frames'[c][Len(frames'[c])].type = "error"
         /\ session'[c] = session[c]
         /\ store' = store
         /\ pc'[c] = "idle"]_vars

\* ---------------------------------------------------------------- C8
\* C8: once a call of the completion service failed in a turn, the turn
\* holds exactly one error frame, and no further completion-service call
\* and no executor ran after the failure.
C8_FailureEndsTurnWork ==
  \A c \in Conns :
    turn[c].failed =>
      /\ CountType(TurnFrames(c), "error") = 1
      /\ turn[c].afterFail = 0
      /\ pc[c] \in {"round", "finish", "idle"}

\* C8 witness: a turn whose completion-service call failed after tool calls
\* had been accumulated is back in the receive loop
C8_Witness ==
  \E c \in Conns :
    /\ turn[c].failed
    /\ pc[c] = "idle"
    /\ turn[c].llmCalls > 1
    /\ CountType(TurnFrames(c), "error") = 1

\* ---------------------------------------------------------------- C9
\* the handler of connection c ran, and its token names no user, or names
\* a user who is no admin while the agent is admin-only
Unauthenticated(c) == pc[c] # "connecting" /\ ~Authenticate(cred[c].token).known
NotAdmitted(c) ==
  /\ pc[c] # "connecting"
  /\ Authenticate(cred[c].token).known
  /\ config.adminOnly
  /\ ~Authenticate(cred[c].token).admin

\* C9: such a connection got exactly one frame, an error frame, was closed
\* with 4001 (unauthenticated) or 4003 (forbidden), holds no session, began
\* no turn, and no session was created for it.
C9_RejectedConnection ==
  /\ \A c \in Conns :
       (Unauthenticated(c) \/ NotAdmitted(c)) =>
         /\ Len(frames[c]) = 1
         /\ frames[c][1].type = "error"
         /\ closeCode[c] = IF Unauthenticated(c) THEN CloseUnauthenticated
                           ELSE CloseForbidden
         /\ pc[c] = "closed"
         /\ session[c] = NoSession
         /\ turns[c] = 0
  /\ Cardinality({x \in SessionIds : store[x] # NoSession})
       <= Cardinality({c \in Conns : pc[c] # "connecting"
                                     /\ ~Unauthenticated(c) /\ ~NotAdmitted(c)})

\* C9 witness: one connection was closed as unauthenticated and another as
\* forbidden
C9_Witness ==
  \E c, d \in Conns :
    /\ Unauthenticated(c) /\ closeCode[c] = CloseUnauthenticated
    /\ NotAdmitted(d) /\ closeCode[d] = CloseForbidden

\* ---------------------------------------------------------------- C10
\* the handler of connection c got past authentication and authorization
Admitted(c) == pc[c] # "connecting" /\ session[c] # NoSession

\* C10: the session an admitted connection holds is owned by its
\* authenticated user; it is the supplied session only when that user owns
\* it, and a freshly created one otherwise; a stored session never changes
\* its owner, and its user messages are its owner's.
C10_SessionOwnedByUser ==
  /\ [](\A c \in Conns :
          Admitted(c) =>
            /\ user[c] = Authenticate(cred[c].token)
            /\ session[c].user_id = user[c].id
            /\ store[session[c].id].user_id = user[c].id
            /\ session[c].id = cred[c].before \/ session[c].id = cred[c].sid)
  /\ [](\A x \in SessionIds :
          store[x] # NoSession =>
            /\ store[x].id = x
            /\ \A i \in 1..Len(store[x].messages) :
                 store[x].messages[i].role = "user" =>
                   store[x].messages[i].content = ChatOf(store[x].user_id))
  /\ [][\A x \in SessionIds :
          store[x] # NoSession =>
            store'[x].user_id = store[x].user_id]_vars

\* C10 witness: a connection that supplied the id of another user's
\* session, which holds a message, works on a fresh session of its own
C10_Witness ==
  \E c \in Conns :
    /\ Admitted(c)
    /\ cred[c].sid # NoSid
    /\ store[cred[c].sid] # NoSession
    /\ store[cred[c].sid].user_id # user[c].id
    /\ store[cred[c].sid].messages # <<>>
    /\ session[c].id # cred[c].sid
    /\ session[c].id = cred[c].before

\* ---------------------------------------------------------------- C11
\* the handler of connection c is inside _stream_response
InRoundLoop(c) ==
  pc[c] \in {"llm", "round", "exec", "register", "wait", "run", "finish"}

\* C11: no two connections are inside the round loop for the same session
\* id at the same time.
C11_OneRoundLoopPerSession ==
  \A c, d \in Conns :
    (c # d /\ InRoundLoop(c) /\ InRoundLoop(d)) =>
      session[c].id # session[d].id

\* ---------------------------------------------------------------- C12
\* C12: once a confirm for the id an execute call waits on has been
\* delivered (its event is set), the value the waiting call will read for
\* that id does not change while the call has not resumed.
C12_FirstResolutionWins ==
  [][\A c \in Conns :
       (/\ pc[c] = "wait"
        /\ pending[turn[c].confirmId] = "set"
        /\ pc'[c] = "wait") =>
         results'[turn[c].confirmId] = results[turn[c].confirmId]]_vars

\* ---------------------------------------------------------------- C13
\* C13: a confirm frame for an id that has no pending confirmation leaves
\* the pending map and the stored resolution values as they were.
C13_UnknownIdIsNoOp ==
  [][\A c \in Conns, m \in Payloads :
       (RecvConfirm(c, m) /\ pending[m.cid] = "none") =>
         (pending' = pending /\ results' = results)]_vars

\* ---------------------------------------------------------------- C14
\* C14: whenever an execute call stops waiting for its confirmation, by
\* approval, denial, timeout, cancellation of the task or a failed send of
\* the timeout frame, neither the pending map nor the stored resolution
\* values hold an entry for its confirmation id any more.
C14_WaitEndLeavesNoEntry ==
  [][\A c \in Conns :
       (pc[c] = "wait" /\ pc'[c] # "wait") =>
         /\ pending'[turn[c].confirmId] = "none"
         /\ results'[turn[c].confirmId] = "absent"]_vars

\* C14 witness: a wait ended by an approval and both maps are clear of the id
C14_Witness ==
  \E c \in Conns :
    /\ pc[c] = "run"
    /\ turn[c].outcome = "approved"
    /\ pending[turn[c].confirmId] = "none"
    /\ results[turn[c].confirmId] = "absent"

\* ---------------------------------------------------------------- C15
\* C15: a wait whose confirmation is not resolved ends; and when a wait has
\* ended by timeout, the call is cancelled: the frame that follows the
\* confirm_required frame of the call is the one skill_result frame with
\* success false, no skill_start frame was sent for it, and the call
\* returned the cancellation text.
C15_UnresolvedConfirmationEnds ==
  /\ \A c \in Conns :
       (pc[c] = "wait") ~>
         (pc[c] # "wait" \/ pending[turn[c].confirmId] = "set")
  /\ [](\A c \in Conns :
          turn[c].outcome = "timeout" =>
            /\ pc[c] = "exec"
            /\ Len(frames[c]) >= 2
            /\ frames[c][Len(frames[c])].type = "skill_result"
            /\ frames[c][Len(frames[c])].a = <<"false">>
            /\ frames[c][Len(frames[c]) - 1] =
                 Frame("confirm_required", <<turn[c].confirmId>>, <<>>)
            /\ LastMessage(c).content = Cancelled)

\* C15 witness: a wait ended by timeout with the event never set
C15_Witness ==
  \E c \in Conns :
    /\ turn[c].outcome = "timeout"
    /\ ~turn[c].approved
    /\ CountType(TurnFrames(c), "skill_start") = 0
    /\ CountType(TurnFrames(c), "skill_result") = 1

\* C16: a shell command that matches a hard-deny pattern starts no process,
\* and the client gets a skill_result frame with success false whose output
\* names the block reason
C16_BlockedCommandReportedFailed ==
  \A c \in Conns : \A i \in 1..Len(turn[c].execs) :
    LET e == turn[c].execs[i]
        cmd == Params(e.args).command
    IN (e.name = BashTool /\ cmd # <<>> /\ BlockedPattern(cmd) # "") =>
         /\ ~e.started
         /\ \E k \in 1..Len(frames[c]) :
              frames[c][k] = Frame("skill_result", <<"false">>,
                                   <<"Blocked:", BlockedPattern(cmd)>>)

\* C17: when the executor raises, or the tool name has no registered
\* executor, execute sends a skill_result frame with success false, returns
\* a failure text into the round loop (no exception leaves execute), and the
\* failure text is appended as the tool-role message of the call
C17_ExecutorFailureBecomesResult ==
  [][\A c \in Conns :
       (pc[c] = "run" /\ pc'[c] # "run") =>
         LET call == Head(turn[c].queue)
             known == call.name \in ExecutorNames
             raised == /\ Len(turn'[c].execs) = Len(turn[c].execs) + 1
                       /\ turn'[c].execs[Len(turn'[c].execs)].raised
             text == IF known THEN <<"Skill execution error">>
                     ELSE <<"Unknown skill action">>
             fr == frames'[c][Len(frames'[c])]
             msgs == session'[c].messages
         IN (~known \/ raised) =>
              /\ pc'[c] = "exec"
              /\ ended'[c] = "no"
              /\ closeCode'[c] = closeCode[c]
              /\ fr = Frame("skill_result", <<"false">>, text)
              /\ Len(msgs) = Len(session[c].messages) + 1
              /\ msgs[Len(msgs)].role = "tool"
              /\ msgs[Len(msgs)].content = text
              /\ msgs[Len(msgs)].name = call.name
              /\ turn'[c].queue = Tail(turn[c].queue)]_vars

\* C17 witness: an executor raised, its call was reported as failed, and the
\* error text is the last message of the transcript
C17_Witness ==
  \E c \in Conns :
    /\ turn[c].execs # <<>>
    /\ turn[c].execs[Len(turn[c].execs)].raised
    /\ ~turn[c].execs[Len(turn[c].execs)].success
    /\ pc[c] = "exec"
    /\ LastMessage(c).role = "tool"
    /\ LastMessage(c).content = <<"Skill execution error">>

\* C18: an executor runs with write capability only in a turn whose
\* write_enabled is true, whatever keys the model put into the parameters
C18_WriteFlagOnlyWhenEnabled ==
  \A c \in Conns : \A i \in 1..Len(turn[c].execs) :
    turn[c].execs[i].wcap => turn[c].execs[i].write

\* C19: no skill invocation stops, kills or removes a protected container,
\* whether or not the user approved a confirmation for it
C19_ProtectedNeverStopped ==
  \A c \in Conns : \A i \in 1..Len(turn[c].execs) :
    turn[c].execs[i].stopped \notin Protected

\* the index of the last assistant message of a transcript (0 for none)
LastAssistant(msgs) ==
  IF \E k \in 1..Len(msgs) : msgs[k].role = "assistant"
  THEN CHOOSE k \in 1..Len(msgs) :
         /\ msgs[k].role = "assistant"
         /\ \A j \in (k + 1)..Len(msgs) : msgs[j].role # "assistant"
  ELSE 0

\* C20: normalizing a canonical id returns it and records nothing,
\* normalizing twice equals normalizing once, and while the calls of a round
\* are executed the remap table maps every non-canonical raw id to exactly
\* the normalized id that the assistant message stores and that the tool-role
\* message of the call carries
C20_NormalizationIdempotent ==
  \A c \in Conns :
    LET raws == turn[c].toolCalls
        msgs == session[c].messages
        k == LastAssistant(msgs)
    IN /\ \A p \in turn[c].remap :
            /\ p[1] # <<>> /\ Head(p[1]) # "call_"
            /\ p[2] = NormalizeTcId(p[1])
            /\ NormalizeTcId(p[2]) = p[2]
            /\ RemapAfter(turn[c].remap, p[2]) = turn[c].remap
            /\ \A q \in turn[c].remap : q[1] = p[1] => q = p
       /\ \A j \in 1..Len(raws) :
            LET raw == raws[j].id
                new == NormalizeTcId(raw)
            IN /\ NormalizeTcId(new) = new
               /\ (raw = <<>> \/ Head(raw) = "call_") =>
                    /\ new = raw
                    /\ RemapAfter(turn[c].remap, raw) = turn[c].remap
                    /\ \A p \in turn[c].remap : p[1] # raw
       /\ pc[c] \in {"exec", "register", "wait", "run"} =>
            /\ k > 0
            /\ Len(msgs[k].tool_calls) = Len(raws)
            /\ \A j \in 1..Len(raws) :
                 LET raw == raws[j].id IN
                   /\ msgs[k].tool_calls[j].id = NormalizeTcId(raw)
                   /\ RemapGet(turn[c].remap, raw) = NormalizeTcId(raw)
                   /\ (raw # <<>> /\ Head(raw) # "call_") =>
                        <<raw, NormalizeTcId(raw)>> \in turn[c].remap
            /\ \A m \in 1..(Len(msgs) - k) :
                 /\ msgs[k + m].role = "tool"
                 /\ msgs[k + m].tool_call_id
                      = NormalizeTcId(ValidCalls(raws)[m].id)

\* C20 witness: the call of a round had the raw id toolu_vrtx_a, the remap
\* table maps it to call_a, and its tool-role message carries call_a
C20_Witness ==
  \E c \in Conns :
    /\ pc[c] = "exec"
    /\ <<<<"toolu_", "vrtx_", "a">>, <<"call_", "a">>>> \in turn[c].remap
    /\ turn[c].queue = <<>>
    /\ LastMessage(c).role = "tool"
    /\ LastMessage(c).tool_call_id = <<"call_", "a">>
    /\ LastMessage(c).tool_call_id
         = RemapGet(turn[c].remap, turn[c].toolCalls[1].id)
    /\ turn[c].toolCalls[1].id = <<"toolu_", "vrtx_", "a">>

\* a is a prefix of b
IsPrefix(a, b) == Len(a) <= Len(b) /\ SubSeq(b, 1, Len(a)) = a

\* C21: the transcript is append-only and the store shows a consistent
\* prefix: every step leaves the transcript a handler holds as a prefix of
\* the new one, and every version written to the store extends the version
\* stored before
C21_StoreShowsConsistentPrefix ==
  [][/\ \A c \in Conns :
          session'[c].id = session[c].id =>
            IsPrefix(session[c].messages, session'[c].messages)
     /\ \A x \in SessionIds :
          IsPrefix(store[x].messages, store'[x].messages)]_vars

\* C22: once a send to the connection has failed, no executor is invoked
\* and no completion-service call is made for that connection's turn
C22_CloseAbortsRoundLoop ==
  \A c \in Conns : turn[c].execsAfter = 0 /\ turn[c].llmAfter = 0

\* the turn of c got one answer from the completion service: non-empty
\* content, no tool calls, no error, and its round has been handled
PlainTurnDone(c) ==
  /\ pc[c] \in {"finish", "idle"}
  /\ turns[c] > 0
  /\ turn[c].llmCalls = 1
  /\ ~turn[c].failed
  /\ turn[c].toolCalls = <<>>
  /\ turn[c].content # <<>>

\* C23: such a turn sent one chunk frame per content delta in stream order,
\* then exactly one message_done whose content is the concatenation of the
\* deltas, and made the transcript longer by exactly 2: the user message and
\* one assistant message
C23_PlainTurnFramesAndTranscript ==
  \A c \in Conns :
    PlainTurnDone(c) =>
      LET fs == TurnFrames(c)
          ds == turn[c].content
          msgs == session[c].messages
      IN /\ Len(fs) = Len(ds) + 1
         /\ \A i \in 1..Len(ds) : fs[i] = Frame("chunk", <<ds[i]>>, <<>>)
         /\ fs[Len(fs)] = Frame("message_done", ds, <<>>)
         /\ Len(msgs) = turn[c].lenBefore + 2
         /\ msgs[Len(msgs) - 1].role = "user"
         /\ msgs[Len(msgs)] = AssistantMessage(ds, <<>>)
         /\ store[session[c].id].messages = msgs

\* C23 witness: a finished turn whose answer came in two deltas
C23_Witness ==
  \E c \in Conns :
    /\ PlainTurnDone(c)
    /\ pc[c] = "idle"
    /\ turn[c].content = <<"c1", "c2">>
    /\ CountType(TurnFrames(c), "chunk") = 2
    /\ CountType(TurnFrames(c), "message_done") = 1

\* C24: validate_command returns for every command, refuses it if and only
\* if the command matches at least one blocked pattern, and the reason names
\* the first pattern of the list that matches
C24_ValidateCommandPatternExact ==
  \A c \in Conns : \A n \in 1..Len(turn[c].execs) :
    LET e == turn[c].execs[n]
        cmd == Params(e.args).command
        hits == {i \in 1..Len(BLOCKED_PATTERNS) :
                   Matches(BLOCKED_PATTERNS[i], cmd)}
    IN (e.name = BashTool /\ cmd # <<>>) =>
         /\ ~e.raised
         /\ e.blocked <=> hits # {}
         /\ e.blocked => ~e.started
         /\ hits # {} =>
              \E i \in hits :
                /\ \A j \in hits : i <= j
                /\ \E k \in 1..Len(session[c].messages) :
                     /\ session[c].messages[k].role = "tool"
                     /\ session[c].messages[k].content
                          = <<"Blocked:", BLOCKED_PATTERNS[i]>>

\* C24 witness: a command that matches the first and the second pattern of
\* the list was refused with the first one as the reason
C24_Witness ==
  \E c \in Conns : \E n \in 1..Len(turn[c].execs) :
    /\ turn[c].execs[n].args = "cmd_shutdown_rm"
    /\ turn[c].execs[n].blocked
    /\ Matches("shutdown", Params("cmd_shutdown_rm").command)
    /\ Matches("rm_root", Params("cmd_shutdown_rm").command)
    /\ LastMessage(c).content = <<"Blocked:", "rm_root">>

\* C25: the pending entry of a confirmation id exists before its
\* confirm_required frame is sent, so an approval delivered at any moment
\* after the frame was sent wakes the waiter: the call does not time out
C25_RegisteredBeforeFrameSent ==
  \A c \in Conns :
    /\ pc[c] = "register" => pending[turn[c].confirmId] # "none"
    /\ turn[c].early => turn[c].outcome # "timeout"

\* C26: a tool call dropped for an empty name or unparsable arguments is
\* not among the tool calls of the appended assistant message, so when the
\* round is over every tool call stored in that message is answered, in
\* order, by one tool-role message with its id
C26_DroppedCallsNotStored ==
  \A c \in Conns :
    LET msgs == session[c].messages
        k == LastAssistant(msgs)
    IN /\ pc[c] \in {"exec", "register", "wait", "run"} =>
            /\ k > 0
            /\ Len(msgs[k].tool_calls) = Len(ValidCalls(turn[c].toolCalls))
            /\ \A j \in 1..Len(msgs[k].tool_calls) :
                 /\ msgs[k].tool_calls[j].name # ""
                 /\ msgs[k].tool_calls[j].args # "garbage"
       /\ (pc[c] = "llm" /\ turn[c].round > 0) =>
            /\ k > 0
            /\ Len(msgs) - k = Len(msgs[k].tool_calls)
            /\ \A j \in 1..Len(msgs[k].tool_calls) :
                 k + j <= Len(msgs) =>
                   /\ msgs[k + j].role = "tool"
                   /\ msgs[k + j].tool_call_id = msgs[k].tool_calls[j].id

\* C27: every transcript mutation is persisted before the next one: when a
\* message is appended or an executor starts, the store already holds the
\* transcript as it was before that step
C27_PersistedBeforeNextMutation ==
  [][\A c \in Conns :
       (/\ pc[c] \notin {"connecting", "closed"}
        /\ session'[c].id = session[c].id
        /\ \/ Len(session'[c].messages) > Len(session[c].messages)
           \/ pc[c] = "run" /\ pc'[c] # "run") =>
         store[session[c].id].messages = session[c].messages]_vars

\* C28: an executor is invoked only for actions of skills that are enabled
\* in the agent configuration
C28_OnlyEnabledSkillsExecuted ==
  \A c \in Conns : \A i \in 1..Len(turn[c].execs) :
    SkillOf(turn[c].execs[i].name) \in enabled_skills

\* C29: the message list handed to the completion service is well-formed:
\* each tool-role message in it is preceded, in the list, by an assistant
\* message that contains a tool call with its id, also when the window of
\* 20 messages cuts the stored transcript
C29_ReplayedListWellFormed ==
  \A c \in Conns :
    pc[c] = "llm" => ToolIdsMatch(turn[c].llm_messages)

\* C30: two tool calls of one turn with different raw ids have different
\* normalized ids in the assistant message, so each tool-role message of the
\* round names exactly one tool call of that message
C30_NormalizationKeepsIdsDistinct ==
  \A c \in Conns :
    pc[c] \in {"exec", "register", "wait", "run"} =>
      LET raws == turn[c].toolCalls
          msgs == session[c].messages
          k == LastAssistant(msgs)
          stored == msgs[k].tool_calls
      IN /\ \A i, j \in 1..Len(raws) :
              (i <= Len(stored) /\ j <= Len(stored) /\ raws[i].id # raws[j].id) =>
                stored[i].id # stored[j].id
         /\ \A m \in (k + 1)..Len(msgs) :
              Cardinality({j \in 1..Len(stored) :
                             stored[j].id = msgs[m].tool_call_id}) = 1

\* ---------------------------------------------------------------- C31
\* C31: a pending confirmation is resolved only through the connection that
\* received its confirm_required frame: when the handler of another user's
\* connection receives a confirm frame carrying the id an execute call of
\* the turn connection waits on, the event of the id and the stored value
\* stay as they were.
C31_OtherConnectionCannotResolve ==
  [][\A m \in Payloads :
       (/\ pc[TurnConn] = "wait"
        /\ turn[TurnConn].confirmId = m.cid
        /\ user[RelayConn].id # user[TurnConn].id
        /\ RecvConfirm(RelayConn, m))
       => /\ pending'[m.cid] = pending[m.cid]
          /\ results'[m.cid] = results[m.cid]]_vars

\* ---------------------------------------------------------------- C32
\* the frame types the round loop and execute send for tool calls and text
ToolFrameTypes == {"confirm_required", "skill_start", "skill_result"}

\* C32: the frames of a turn are in generation order. A skill_start is
\* directly followed by the skill_result of its call, so no frame of another
\* call comes between them; a skill_result follows the skill_start of its
\* call or, for the timeout result, the confirm_required of its call; a
\* confirm_required is followed by frames of its own call or, when the call
\* was cancelled, by what the loop sends next, never by a frame sent
\* earlier; and after message_done no chunk and no tool frame is sent.
C32_FramesInGenerationOrder ==
  LET f == TurnFrames(TurnConn) IN
    \A i \in 1..Len(f) :
      /\ (f[i].type = "skill_start" /\ i < Len(f))
           => f[i + 1].type = "skill_result"
      /\ f[i].type = "skill_result"
           => /\ i > 1
              /\ \/ f[i - 1].type = "skill_start"
                 \/ f[i - 1].type = "confirm_required" /\ f[i] = TimeoutFrame
      /\ f[i].type = "message_done"
           => \A j \in (i + 1)..Len(f) :
                f[j].type \notin ToolFrameTypes \cup {"chunk"}
      /\ (f[i].type = "skill_start" /\ turn[TurnConn].confirmId # ""
            /\ pc[TurnConn] = "exec" /\ i = Len(f) - 1)
           => f[i - 1] = Frame("confirm_required",
                               <<turn[TurnConn].confirmId>>, <<>>)

\* C32 witness: a finished turn that streamed text, asked for confirmation,
\* ran the approved call and ended with message_done as its last frame
C32_Witness ==
  LET f == TurnFrames(TurnConn) IN
    /\ pc[TurnConn] = "idle"
    /\ Len(f) >= 5
    /\ f[1].type = "chunk"
    /\ f[2].type = "confirm_required"
    /\ f[3].type = "skill_start"
    /\ f[4].type = "skill_result"
    /\ f[Len(f)].type = "message_done"

\* ---------------------------------------------------------------- C33
\* the pieces of one field of a list of fragments, concatenated in order
RECURSIVE PiecesOf(_, _)
PiecesOf(frs, field) ==
  IF frs = <<>> THEN ""
  ELSE (IF field = "name" THEN Head(frs).name ELSE Head(frs).args)
       \o PiecesOf(Tail(frs), field)

\* C33: when the stream of a round has ended, the tool calls it returned are
\* one per distinct index of the fragments that arrived, in ascending order
\* of index, each with the name and the argument string concatenated in
\* arrival order from the fragments of its own index only; when the stream
\* ended in an error no tool call is returned and no executor runs in the
\* turn.
C33_FragmentsAccumulatedPerIndex ==
  LET t == turn[TurnConn]
      of(i) == SelectSeq(t.arrived, LAMBDA f : f.index = i)
      indexes == {t.arrived[n].index : n \in 1..Len(t.arrived)}
      below(i) == Cardinality({j \in indexes : j < i})
  IN /\ (pc[TurnConn] = "round" /\ t.round = 0 /\ ~t.failed)
          => /\ Len(t.toolCalls) = Cardinality(indexes)
             /\ \A i \in indexes :
                  /\ t.toolCalls[below(i) + 1].name = PiecesOf(of(i), "name")
                  /\ t.toolCalls[below(i) + 1].args = PiecesOf(of(i), "args")
     /\ t.failed => t.toolCalls = <<>> /\ t.execs = <<>>

\* C33 witness: the fragments of two calls arrived interleaved, the call of
\* index 1 first, and the stream ended with [DONE]; and a stream that had
\* accumulated a call ended in an error
C33_Witness ==
  LET t == turn[TurnConn] IN
    /\ pc[TurnConn] = "round"
    /\ t.round = 0
    /\ ~t.failed
    /\ Len(t.arrived) = 4
    /\ t.arrived[1].index = 1
    /\ t.arrived[2].index = 0
    /\ t.arrived[3].index = 1
    /\ Len(t.toolCalls) = 2
    /\ t.toolCalls[1].name = PlainTool
    /\ t.toolCalls[2].args = "json"

\* ---------------------------------------------------------------- C34
\* C34: execute asks for confirmation exactly when the catalog marks the
\* action confirmation_required or the tool is the shell tool and
\* RequiresConfirmation returns a reason for its command parameter: a call
\* whose confirm_required frame is out, or that runs after its wait, is such
\* a call; a call that reached the executor step without a wait is not, no
\* confirm_required frame was sent for it and no pending entry exists.
C34_ConfirmationExactlyWhenRequired ==
  LET t == turn[TurnConn]
      f == frames[TurnConn]
      call == Head(t.queue)
      command == Params(call.args).command
      required ==
        \/ CatalogConfirm(call.name)
        \/ call.name = BashTool /\ command # <<>> /\ RequiresConfirmation(command)
  IN /\ pc[TurnConn] \in {"register", "wait"} => required
     /\ (pc[TurnConn] = "run" /\ t.confirmId # "") => required
     /\ (pc[TurnConn] = "run" /\ t.confirmId = "")
          => /\ ~required
             /\ f[Len(f)].type # "confirm_required"
             /\ \A id \in ConfirmIds : pending[id] = "none"

\* C34 witness: execute waits on a confirmation that only the command of a
\* shell call made necessary
C34_Witness ==
  /\ pc[TurnConn] = "wait"
  /\ Head(turn[TurnConn].queue).name = BashTool
  /\ ~CatalogConfirm(BashTool)
  /\ frames[TurnConn][Len(frames[TurnConn])].type = "confirm_required"
  /\ pending[turn[TurnConn].confirmId] = "unset"

\* ---------------------------------------------------------------- C35
\* C35: two confirmations outstanding at the same time never share an id,
\* so that registering one never replaces the event of another and the
\* cleanup of one waiter never removes the entry another waiter waits on:
\* every waiting execute call finds its id registered.
C35_OutstandingIdsDistinct ==
  /\ \A a, b \in Conns :
       (/\ a # b
        /\ pc[a] \in {"register", "wait"}
        /\ pc[b] \in {"register", "wait"})
       => turn[a].confirmId # turn[b].confirmId
  /\ \A w \in Conns : pc[w] = "wait" => pending[turn[w].confirmId] # "none"

\* ---------------------------------------------------------------- C36
\* the number of streamed content deltas held by a list of texts (the
\* separators of a joined text and the placeholder texts are not deltas)
RECURSIVE DeltasIn(_)
DeltasIn(texts) ==
  IF texts = <<>> THEN 0
  ELSE Cardinality({k \in 1..Len(Head(texts)) : Head(texts)[k] \in {"c1", "c2"}})
       + DeltasIn(Tail(texts))

\* C36: when a turn is over, the messages it appended are exactly one user
\* message, the first, and at most one assistant message without tool
\* calls, which is then the last; and no assistant content of the turn is
\* stored twice: the assistant messages of the turn hold no more content
\* deltas than the rounds of the turn produced.
C36_OneFinalAssistantMessage ==
  LET msgs == session[TurnConn].messages
      first == turn[TurnConn].lenBefore + 1
      new == SubSeq(msgs, first, Len(msgs))
      users == {i \in 1..Len(new) : new[i].role = "user"}
      spoken == {i \in 1..Len(new) : new[i].role = "assistant"}
      final == {i \in spoken : new[i].tool_calls = <<>>}
      stored == [i \in 1..Len(new) |->
                   IF i \in spoken THEN new[i].content ELSE <<>>]
  IN (pc[TurnConn] = "idle" /\ turns[TurnConn] > 0)
       => /\ users = {1}
          /\ Cardinality(final) <= 1
          /\ final \subseteq {Len(new)}
          /\ DeltasIn(stored) <= DeltasIn(turn[TurnConn].parts)

\* ---------------------------------------------------------------- C37
\* C37: the content of message_done is the whole message of the turn: the
\* content deltas it holds are the texts of all chunk frames of the turn,
\* in the order they were streamed.
C37_DoneCarriesEveryRound ==
  LET f == TurnFrames(TurnConn)
      chunks == SelectSeq(f, LAMBDA x : x.type = "chunk")
      streamed == [k \in 1..Len(chunks) |-> chunks[k].a[1]]
  IN \A i \in 1..Len(f) :
       f[i].type = "message_done"
         => SelectSeq(f[i].a, LAMBDA x : x \in {"c1", "c2"}) = streamed

\* ---------------------------------------------------------------- C38
\* C38: the connection registry holds exactly the session ids of the
\* connections that are active (accepted, handler not yet ended).
C38_RegistryHoldsActiveSessions ==
  {s \in SessionIds : connections[s] # 0}
    = {session[c].id : c \in {a \in Conns : pc[a] \notin {"connecting", "closed"}}}

\* ---------------------------------------------------------------- C39
\* C39: audit logging is best effort. When the audit write of an execute
\* call failed, the call still returned the text its executor produced (it
\* is the tool-role message), the skill_result frame sent before the audit
\* step is the last frame on the connection, unchanged, and no exception
\* left execute: the handler goes on with the round.
C39_AuditFailureChangesNothing ==
  LET t == turn[TurnConn]
      f == frames[TurnConn]
      e == t.execs[Len(t.execs)]
      d == Executor(e.name, ExecParams(Params(e.args), e.write), "ok")
      expected == IF d.raised THEN <<"Skill execution error">> ELSE d.text
  IN (/\ pc[TurnConn] = "exec"
      /\ t.round = 0
      /\ t.execs # <<>>
      /\ ~e.audited)
     => /\ LastMessage(TurnConn).role = "tool"
        /\ LastMessage(TurnConn).content = expected
        /\ f[Len(f)] = Frame("skill_result", <<BoolText(~d.raised)>>, expected)
        /\ ended[TurnConn] = "no"

\* C39 witness: a shell command ran, its audit row could not be written,
\* and the round goes on
C39_Witness ==
  LET t == turn[TurnConn] IN
    /\ pc[TurnConn] = "exec"
    /\ t.round = 0
    /\ t.execs # <<>>
    /\ ~t.execs[Len(t.execs)].audited
    /\ t.execs[Len(t.execs)].name = BashTool
    /\ t.execs[Len(t.execs)].started

\* ---------------------------------------------------------------- C40
\* C40: memory and graph providers that are missing, raise or return
\* nothing never fail the turn and leave no trace in it: the system prompt
\* is the one built from empty results, the handler goes on, no error frame
\* is sent in the turn, and a turn answered in plain text ends with the
\* chunk frames of the answer followed by message_done, and with the user
\* message and the assistant message appended to the transcript and saved,
\* as it does with providers returning empty results.
C40_ProvidersDegradeSilently ==
  LET t == turn[TurnConn]
      f == TurnFrames(TurnConn)
      msgs == session[TurnConn].messages
      new == SubSeq(msgs, t.lenBefore + 1, Len(msgs))
  IN (/\ turns[TurnConn] > 0
      /\ t.memory \in {"absent", "raises", "nothing"}
      /\ t.graph \in {"absent", "unavailable", "raises", "nothing"})
     => /\ t.system_prompt = <<"base">>
        /\ ended[TurnConn] = "no"
        /\ pc[TurnConn] # "closed"
        /\ \A i \in 1..Len(f) : f[i].type # "error"
        /\ (pc[TurnConn] = "idle" /\ t.llmCalls = 1 /\ t.content # <<>>)
             => /\ f = LlmFrames(Resp("ok", t.content, <<>>))
                       \o <<Frame("message_done", t.content, <<>>)>>
                /\ Len(new) = 2
                /\ new[1].role = "user"
                /\ new[2] = AssistantMessage(t.content, <<>>)
                /\ store[session[TurnConn].id] = session[TurnConn]

\* C40 witness: a turn whose recall, graph query and store all raised has
\* ended with its plain answer delivered
C40_Witness ==
  /\ turns[TurnConn] > 0
  /\ pc[TurnConn] = "idle"
  /\ turn[TurnConn].memory = "raises"
  /\ turn[TurnConn].graph = "raises"
  /\ turn[TurnConn].llmCalls = 1
  /\ turn[TurnConn].content # <<>>
  /\ turn[TurnConn].doneSent

====
